---- MODULE Spec2Model ----
(***************************************************************************)
(* Purchase / invoice negotiation and provisioning pipeline of the         *)
(* Telegram bot: the Message Slot Manager (utils/bot_tools.py,             *)
(* edit_or_send_new), the Chat-ID Lock Table, the Active Message Pointer   *)
(* (core/database/db_tools.py), the Shared Cache (database/redis_tools.py  *)
(* and core/database/redis_tools.py), the invoice engine (create_invoice)  *)
(* and the callback handlers of handlers/callbacks/defualt.py.             *)
(*                                                                         *)
(* Every handler is a coroutine on one event loop: it runs without         *)
(* interruption between two awaits and may be interleaved with any other   *)
(* handler at an await.  A process p of the model is one handler           *)
(* invocation; pc[p] is the await it is suspended at, fr[p] its locals.    *)
(***************************************************************************)
EXTENDS Integers, Sequences, FiniteSets, TLC

VARIABLES
    pc,              \* process -> the await the handler invocation is suspended at
    fr,              \* process -> locals of the handler invocation
    redis,           \* Redis: chat -> key -> stored value
    MessageIds,      \* MySQL table MessageIds: chat -> MessageId (NoMsg: no row)
    chat_id_locks,   \* utils/bot_tools.py chat_id_locks: chat -> asyncio.Lock
    telegram,        \* chat -> sequence of bot messages (index = message_id)
    BotUsers,        \* MySQL table BotUsers: chat -> row
    PurchaseHistory, \* MySQL table PurchaseHistory: sequence of rows (index = PurchaseID)
    state,           \* aiogram FSM state of each chat
    panel            \* accounts created on the remote panels, in order

vars == <<pc, fr, redis, MessageIds, chat_id_locks, telegram, BotUsers,
          PurchaseHistory, state, panel>>

(***************************************************************************)
(* Bounds of the model.                                                    *)
(***************************************************************************)
NumProcs == 2
NumChats == 1

Procs == 1..NumProcs
Chats == 1..NumChats

\* Python None for a message id, and an asyncio.Lock nobody holds.
NoMsg == 0
NoProc == 0

(***************************************************************************)
(* Message texts.  A text is a record so that texts of every screen can be *)
(* compared; only an invoice uses the numeric fields.                      *)
(***************************************************************************)
Txt(kind) ==
    [kind |-> kind, tariff |-> 0, u |-> 0, v |-> 0, users |-> 0, shown |-> 0, carried |-> 0,
     purchase_id |-> 0]

MenuTexts == {Txt("menu"), Txt("plans")}

(***************************************************************************)
(* Locals of a handler invocation.                                         *)
(***************************************************************************)
NoData == [enc |-> "none", tariff_id |-> 0, users |-> 0, volume |-> 0, amount |-> 0,
           purchase_id |-> 0, platform |-> "none", duration |-> 0]

InitFrame ==
    [h |-> "none", chat |-> 0, ret |-> <<>>, val |-> 0, last_msg_id |-> NoMsg,
     new_text |-> Txt("none"), message_id |-> NoMsg, inlock |-> FALSE,
     catch |-> "raised", out |-> "none", alert |-> "none",
     purchase_data |-> NoData, action |-> "none", tariff_id |-> 0, u |-> 0, v |-> 0,
     u0 |-> 0, v0 |-> 0, default_user |-> 0, current_price |-> 0, sent |-> 0,
     pre |-> FALSE, has_right |-> FALSE, failed |-> FALSE, cache |-> "none",
     key |-> <<>>, keys |-> {}, seen |-> {}, country_id |-> 0,
     callback_data |-> <<>>, data |-> <<>>, args |-> [action |-> "none"],
     admins |-> 0, left |-> FALSE, user_chat_id |-> 0, review |-> 0]

Done(p) == pc[p] \in {"done", "raised"}

(***************************************************************************)
(* Subroutine call and return of a coroutine awaited by another one.       *)
(***************************************************************************)
Call(f, label) == [f EXCEPT !.ret = <<label>> \o @]

Return(f, v) == [f EXCEPT !.ret = Tail(@), !.val = v]

\* Where an exception raised at an await of p's coroutine ends up: inside the
\* "async with" of edit_or_send_new the lock's __aexit__ runs first.
RaiseTo(f) == IF f.inlock THEN "r_aexit_exc" ELSE f.catch

(***************************************************************************)
(* Telegram transport.                                                     *)
(***************************************************************************)
Live(c, m) == m \in 1..Len(telegram[c]) /\ telegram[c][m].live

SendMessage(tg, c, text) == [tg EXCEPT ![c] = Append(@, [text |-> text, live |-> TRUE])]

EditText(tg, c, m, text) == [tg EXCEPT ![c][m].text = text]

DeleteMessage(tg, c, m) == [tg EXCEPT ![c][m].live = FALSE]

(***************************************************************************)
(* Shared Cache of the core tree (core/database/redis_tools.py), used by   *)
(* DBUtil for the key last_message_id: values are stored as JSON text.     *)
(***************************************************************************)
NoValue == [enc |-> "none", n |-> 0]

json_dumps(n) == [enc |-> "json", n |-> n]

json_loads(x) == x.n

\* set_shared_data(chat_id, "last_message_id", message_id, persistent=True)
set_last_message_id(r, c, n) == [r EXCEPT ![c].last_message_id = json_dumps(n)]

\* get_shared_data(chat_id, "last_message_id"): None when the key is not stored
get_cached_message_id(r, c) ==
    IF r[c].last_message_id.enc = "none" THEN NoMsg
    ELSE json_loads(r[c].last_message_id)

\* delete_shared_data(chat_id, "last_message_id")
delete_last_message_id(r, c) == [r EXCEPT ![c].last_message_id = NoValue]

(***************************************************************************)
(* Steps of a process.                                                     *)
(***************************************************************************)
Goto(p, label, f) ==
    /\ pc' = [pc EXCEPT ![p] = label]
    /\ fr' = [fr EXCEPT ![p] = f]

ReturnFrom(p, f, v) == Goto(p, Head(f.ret), Return(f, v))

Raise(p, f) == Goto(p, RaiseTo(f), [f EXCEPT !.ret = <<>>])

dbvars == <<BotUsers, PurchaseHistory, state, panel>>

(***************************************************************************)
(* DBUtil.get_last_message_id (core/database/db_tools.py:208-236).         *)
(***************************************************************************)
\* line 216: message_id = await get_shared_data(chat_id, "last_message_id")
glm216(p) ==
    /\ pc[p] = "glm216"
    /\ LET message_id == get_cached_message_id(redis, fr[p].chat)
       IN IF message_id # NoMsg
          THEN ReturnFrom(p, fr[p], message_id)
          ELSE Goto(p, "glm223", fr[p])
    /\ UNCHANGED <<redis, MessageIds, chat_id_locks, telegram, dbvars>>

\* line 223: result = await self.fetch_data(query, (chat_id,), fetch_one=True)
glm223(p) ==
    /\ pc[p] = "glm223"
    /\ LET result == MessageIds[fr[p].chat]
       IN IF result # NoMsg
          THEN Goto(p, "glm227", [fr[p] EXCEPT !.val = result])
          ELSE ReturnFrom(p, fr[p], NoMsg)
    /\ UNCHANGED <<redis, MessageIds, chat_id_locks, telegram, dbvars>>

\* line 227: await set_shared_data(chat_id, "last_message_id", result[0], persistent=True)
glm227(p) ==
    /\ pc[p] = "glm227"
    /\ redis' = set_last_message_id(redis, fr[p].chat, fr[p].val)
    /\ ReturnFrom(p, fr[p], fr[p].val)
    /\ UNCHANGED <<MessageIds, chat_id_locks, telegram, dbvars>>

(***************************************************************************)
(* DBUtil.store_message_id (core/database/db_tools.py:190-206).  Either    *)
(* write may raise (aioredis.RedisError, a MySQL error).                   *)
(***************************************************************************)
\* line 198: await set_shared_data(chat_id, "last_message_id", message_id, persistent=True)
smi198(p) ==
    /\ pc[p] = "smi198"
    /\ \/ /\ redis' = set_last_message_id(redis, fr[p].chat, fr[p].message_id)
          /\ Goto(p, "smi206", fr[p])
       \/ /\ Raise(p, fr[p])
          /\ UNCHANGED redis
    /\ UNCHANGED <<MessageIds, chat_id_locks, telegram, dbvars>>

\* line 206: INSERT INTO MessageIds ... ON DUPLICATE KEY UPDATE MessageId = new.MessageId
smi206(p) ==
    /\ pc[p] = "smi206"
    /\ \/ /\ MessageIds' = [MessageIds EXCEPT ![fr[p].chat] = fr[p].message_id]
          /\ ReturnFrom(p, fr[p], 0)
       \/ /\ Raise(p, fr[p])
          /\ UNCHANGED MessageIds
    /\ UNCHANGED <<redis, chat_id_locks, telegram, dbvars>>

(***************************************************************************)
(* DBUtil.reset_last_message_id (core/database/db_tools.py:238-251).       *)
(***************************************************************************)
\* line 246: await delete_shared_data(chat_id, "last_message_id")
rst246(p) ==
    /\ pc[p] = "rst246"
    /\ redis' = delete_last_message_id(redis, fr[p].chat)
    /\ Goto(p, "rst250", fr[p])
    /\ UNCHANGED <<MessageIds, chat_id_locks, telegram, dbvars>>

\* line 250: DELETE FROM MessageIds WHERE ChatId = %s
rst250(p) ==
    /\ pc[p] = "rst250"
    /\ MessageIds' = [MessageIds EXCEPT ![fr[p].chat] = NoMsg]
    /\ ReturnFrom(p, fr[p], 0)
    /\ UNCHANGED <<redis, chat_id_locks, telegram, dbvars>>

(***************************************************************************)
(* Chat-ID Lock Table (utils/bot_tools.py:41-42, 122-147).  An             *)
(* asyncio.Lock is held by at most one coroutine and queues the others in  *)
(* arrival order; release hands the lock to the first waiter.              *)
(***************************************************************************)
NewLock == [exists |-> TRUE, holder |-> NoProc, waiters |-> <<>>]

NoLock == [exists |-> FALSE, holder |-> NoProc, waiters |-> <<>>]

\* a table that hands out a fresh lock on every call
lock_per_call(locks, c) == [locks EXCEPT ![c] = NewLock]

get_chat_id_lock(locks, c) ==
    IF ~locks[c].exists THEN [locks EXCEPT ![c] = NewLock] ELSE locks

\* asyncio.Lock.acquire: taken at once when free and nobody waits, else queued
LockFree(l) == l.holder = NoProc /\ l.waiters = <<>>

Acquire(locks, c, p) ==
    IF LockFree(locks[c])
    THEN [locks EXCEPT ![c].holder = p]
    ELSE [locks EXCEPT ![c].waiters = Append(@, p)]

\* asyncio.Lock.release
Release(locks, c) ==
    IF locks[c].waiters = <<>>
    THEN [locks EXCEPT ![c].holder = NoProc]
    ELSE [locks EXCEPT ![c].holder = Head(locks[c].waiters),
                       ![c].waiters = Tail(locks[c].waiters)]

\* a lock that stays held when the block raised
KeepLocked(locks, c) == locks

\* __aexit__ of "async with get_lock" when the block raised
ReleaseOnException(locks, c) == Release(locks, c)

(***************************************************************************)
(* edit_or_send_new (utils/bot_tools.py:45-119).                           *)
(***************************************************************************)
\* line 77: if last_msg_id is None
Body(f) == IF f.last_msg_id = NoMsg THEN "r78" ELSE "r92"

\* line 73: last_msg_id = await db_utils.get_last_message_id(chat_id)
EnterRender(f, text, back) ==
    Call(Call([f EXCEPT !.new_text = text], back), "r75")

\* lines 75-76: get_lock = await get_chat_id_lock(chat_id); async with get_lock
r75(p) ==
    /\ pc[p] = "r75"
    /\ LET c == fr[p].chat
           locks == get_chat_id_lock(chat_id_locks, c)
           f == [fr[p] EXCEPT !.last_msg_id = fr[p].val]
       IN /\ chat_id_locks' = Acquire(locks, c, p)
          /\ IF LockFree(locks[c])
             THEN Goto(p, Body(f), [f EXCEPT !.inlock = TRUE])
             ELSE Goto(p, "wait_lock", f)
    /\ UNCHANGED <<redis, MessageIds, telegram, dbvars>>

\* the process the lock is handed to wakes up inside the block
Wake(pcs, locks, c) ==
    LET w == locks[c].holder
    IN IF w # NoProc /\ pcs[w] = "wait_lock"
       THEN [pcs EXCEPT ![w] = Body(fr[w])] ELSE pcs

WakeFrame(frs, locks, c) ==
    LET w == locks[c].holder
    IN IF w # NoProc /\ pc[w] = "wait_lock"
       THEN [frs EXCEPT ![w].inlock = TRUE] ELSE frs

\* lines 78-85 and 109-116: last_message = await bot.send_message(...)
send_new(p, label) ==
    /\ pc[p] = label
    /\ LET c == fr[p].chat
       IN \/ /\ telegram' = SendMessage(telegram, c, fr[p].new_text)
             /\ Goto(p, "smi198",
                     Call([fr[p] EXCEPT !.message_id = Len(telegram[c]) + 1,
                                        !.sent = @ + 1], "r_aexit"))
          \/ /\ Raise(p, fr[p])
             /\ UNCHANGED telegram
    /\ UNCHANGED <<redis, MessageIds, chat_id_locks, dbvars>>

r78(p) == send_new(p, "r78")

r109(p) == send_new(p, "r109")

\* lines 90-106: await bot.edit_message_text(...), except (MessageNotModified,
\* MessageToEditNotFound, MessageCantBeEdited)
r92(p) ==
    /\ pc[p] = "r92"
    /\ LET c == fr[p].chat
           m == fr[p].last_msg_id
       IN \/ /\ ~Live(c, m)                             \* MessageToEditNotFound
             /\ Goto(p, "r109", fr[p])
             /\ UNCHANGED telegram
          \/ /\ Live(c, m)
             /\ telegram[c][m].text = fr[p].new_text    \* MessageNotModified
             /\ Goto(p, "r109", fr[p])
             /\ UNCHANGED telegram
          \/ /\ Live(c, m)
             /\ telegram[c][m].text # fr[p].new_text
             /\ telegram' = EditText(telegram, c, m, fr[p].new_text)
             /\ Goto(p, "r_aexit", fr[p])
          \/ /\ Live(c, m)                              \* MessageCantBeEdited
             /\ Goto(p, "r109", fr[p])
             /\ UNCHANGED telegram
          \/ /\ Raise(p, fr[p])                         \* any other error
             /\ UNCHANGED telegram
    /\ UNCHANGED <<redis, MessageIds, chat_id_locks, dbvars>>

\* leaving "async with get_lock" normally: the lock is released, the call returns
r_aexit(p) ==
    /\ pc[p] = "r_aexit"
    /\ LET c == fr[p].chat
           locks == Release(chat_id_locks, c)
           f == [fr[p] EXCEPT !.inlock = FALSE]
       IN /\ chat_id_locks' = locks
          /\ pc' = [Wake(pc, locks, c) EXCEPT ![p] = Head(f.ret)]
          /\ fr' = [WakeFrame(fr, locks, c) EXCEPT ![p] = Return(f, 0)]
    /\ UNCHANGED <<redis, MessageIds, telegram, dbvars>>

\* leaving "async with get_lock" by an exception
r_aexit_exc(p) ==
    /\ pc[p] = "r_aexit_exc"
    /\ LET c == fr[p].chat
           locks == ReleaseOnException(chat_id_locks, c)
           f == [fr[p] EXCEPT !.inlock = FALSE, !.ret = <<>>]
       IN /\ chat_id_locks' = locks
          /\ pc' = [Wake(pc, locks, c) EXCEPT ![p] = f.catch]
          /\ fr' = [WakeFrame(fr, locks, c) EXCEPT ![p] = f]
    /\ UNCHANGED <<redis, MessageIds, telegram, dbvars>>

PointerSteps(p) == glm216(p) \/ glm223(p) \/ glm227(p) \/ smi198(p) \/ smi206(p)

RenderSteps(p) == r75(p) \/ r78(p) \/ r92(p) \/ r109(p) \/ r_aexit(p) \/ r_aexit_exc(p)

(***************************************************************************)
(* A handler that only renders a screen (for instance callback 'tariff_',  *)
(* handlers/callbacks/defualt.py:174-193: no try/except around the call).  *)
(***************************************************************************)
Finished == {q \in Procs : Done(q)}

\* handler invocations are numbered in the order the updates arrive
Idle(p) == pc[p] = "idle" /\ \A q \in Procs : q < p => pc[q] # "idle"

\* chats are numbered in the order their first update arrives
Known(c) == c = 1 \/ \E q \in Procs : fr[q].chat = c - 1

\* the chat whose updates a specification follows
TheChat == CHOOSE c \in Chats : \A d \in Chats : c <= d

StartRender(p, c) ==
    /\ Idle(p)
    /\ \E text \in MenuTexts :
          Goto(p, "glm216",
               EnterRender([InitFrame EXCEPT !.h = "render", !.chat = c,
                                             !.seen = Finished], text, "done"))
    /\ UNCHANGED <<redis, MessageIds, chat_id_locks, telegram, dbvars>>

\* the user deletes the bot message the pointer names from the private chat
UserDeletes(c) ==
    /\ Live(c, MessageIds[c])
    /\ telegram' = DeleteMessage(telegram, c, MessageIds[c])
    /\ UNCHANGED <<pc, fr, redis, MessageIds, chat_id_locks, dbvars>>

(***************************************************************************)
(* Initial states.                                                         *)
(***************************************************************************)
NoRow == [UsedTestAcount |-> FALSE]

InitCommon ==
    /\ pc = [p \in Procs |-> "idle"]
    /\ fr = [p \in Procs |-> InitFrame]
    /\ chat_id_locks = [c \in Chats |-> NoLock]
    /\ PurchaseHistory = <<>>
    /\ state = [c \in Chats |-> "none"]
    /\ panel = <<>>

\* chats without a pointer, or with a durable pointer to their live first
\* message and a cold cache
InitPointers ==
    \E cold \in {{}, Chats} :
        /\ redis = [c \in Chats |-> [last_message_id |-> NoValue, purchase_data |-> NoData]]
        /\ MessageIds = [c \in Chats |-> IF c \in cold THEN 1 ELSE NoMsg]
        /\ telegram = [c \in Chats |->
                          IF c \in cold THEN <<[text |-> Txt("menu"), live |-> TRUE]>>
                          ELSE <<>>]

InitRender ==
    /\ InitCommon
    /\ InitPointers
    /\ BotUsers = [c \in Chats |-> NoRow]

NextRender ==
    \/ \E p \in Procs : StartRender(p, TheChat)
    \/ \E p \in Procs : PointerSteps(p) \/ RenderSteps(p)
    \/ UserDeletes(TheChat)

SpecRender == InitRender /\ [][NextRender]_vars

\* two private chats rendering side by side
LockChats == {1, 2}

InitLocks ==
    /\ pc = [p \in Procs |-> "idle"]
    /\ fr = [p \in Procs |-> InitFrame]
    /\ chat_id_locks = [c \in LockChats |-> NoLock]
    /\ PurchaseHistory = <<>>
    /\ state = [c \in LockChats |-> "none"]
    /\ panel = <<>>
    /\ BotUsers = [c \in LockChats |-> NoRow]
    /\ redis = [c \in LockChats |-> [last_message_id |-> NoValue, purchase_data |-> NoData]]
    /\ \E cold \in SUBSET LockChats :
          /\ MessageIds = [c \in LockChats |-> IF c \in cold THEN 1 ELSE NoMsg]
          /\ telegram = [c \in LockChats |->
                            IF c \in cold THEN <<[text |-> Txt("menu"), live |-> TRUE]>>
                            ELSE <<>>]

RenderIn(p) == \E c \in LockChats : StartRender(p, c)

NextLocks ==
    \/ \E p \in Procs : RenderIn(p)
    \/ \E p \in Procs : PointerSteps(p) \/ RenderSteps(p)

SpecLocks == InitLocks /\ [][NextLocks]_vars

\* the event loop resumes a coroutine whose awaited call has completed
FairRender ==
    /\ SpecRender
    /\ WF_vars(\E p \in Procs : PointerSteps(p) \/ RenderSteps(p))

(***************************************************************************)
(* Catalog: the rows create_invoice selects from Tariffs joined with       *)
(* Subscriptions (utils/bot_tools.py:452-466).  Tariffs.Price is           *)
(* DECIMAL(10,2) and is kept in hundredths; tariff 1 is the tariff of the  *)
(* end-to-end scenario (price 100000, 10 percent per user, 500 per GB);    *)
(* tariffs 3 to 5 are test tariffs of price 0, the last without a server.  *)
(***************************************************************************)
Catalog ==
    <<[Price |-> 10000000, AddedPricePerUser |-> 10, PricePerGig |-> 500,
       NumberOfUsers |-> 1, Volume |-> 30, Duration |-> 30, Platform |-> "xui",
       UserExtendable |-> TRUE, VolumeExtendable |-> TRUE, Server |-> TRUE],
      [Price |-> 99999, AddedPricePerUser |-> 15, PricePerGig |-> 250,
       NumberOfUsers |-> 2, Volume |-> 50, Duration |-> 60, Platform |-> "hiddify",
       UserExtendable |-> TRUE, VolumeExtendable |-> TRUE, Server |-> TRUE],
      [Price |-> 0, AddedPricePerUser |-> 0, PricePerGig |-> 0,
       NumberOfUsers |-> 1, Volume |-> 1, Duration |-> 1, Platform |-> "xui",
       UserExtendable |-> FALSE, VolumeExtendable |-> FALSE, Server |-> TRUE],
      [Price |-> 0, AddedPricePerUser |-> 0, PricePerGig |-> 0,
       NumberOfUsers |-> 1, Volume |-> 1, Duration |-> 1, Platform |-> "hiddify",
       UserExtendable |-> FALSE, VolumeExtendable |-> FALSE, Server |-> TRUE],
      [Price |-> 0, AddedPricePerUser |-> 0, PricePerGig |-> 0,
       NumberOfUsers |-> 1, Volume |-> 1, Duration |-> 1, Platform |-> "xui",
       UserExtendable |-> FALSE, VolumeExtendable |-> FALSE, Server |-> FALSE]>>

TariffIds == 1..Len(Catalog)

PaidTariffs == {t \in TariffIds : Catalog[t].Price # 0}

(***************************************************************************)
(* decimal.Decimal: a value is kept as an integer number of Scale-ths.     *)
(* All operations below are exact for the catalog (28 significant digits   *)
(* in Python); products are split so that no intermediate value overflows. *)
(***************************************************************************)
Scale == 10000

\* Decimal(n) of an integer n
Dec(n) == n * Scale

\* the Decimal read from a DECIMAL(10,2) column holding c hundredths
DecOfColumn(c) == c * (Scale \div 100)

\* a * b
DecMul(a, b) == (a \div Scale) * b + ((a % Scale) * b) \div Scale

\* integer division in place of Decimal division
FloorDiv(a, b) == (a \div b) * Scale

\* a / b
DecDiv(a, b) == (a \div b) * Scale + ((a % b) * Scale) \div b

\* int(d): truncation of a non-negative Decimal
int(d) == d \div Scale

\* current_price: Decimal = None
NoPrice == -1

(***************************************************************************)
(* create_invoice (utils/bot_tools.py:445-584).  The result is the invoice *)
(* text with its controls: shown is int(new_price) of the text and of the  *)
(* paid control, carried the new_price of the add/deduct controls.         *)
(***************************************************************************)
\* lines 497-512 with current_price taken as the base
new_price_from_current(price, current_price, price_per_user, price_per_gig, u, v) ==
    LET base == IF current_price = NoPrice THEN price ELSE current_price
        price_increase_per_user == DecDiv(Dec(price_per_user), Dec(100))
        additional_cost_for_users ==
            IF u > 0 THEN DecMul(DecMul(price, price_increase_per_user), Dec(u)) ELSE 0
        additional_cost_per_gig ==
            IF v > 0 THEN DecMul(Dec(price_per_gig), Dec(v)) ELSE 0
    IN base + additional_cost_for_users + additional_cost_per_gig

\* lines 493-512
new_price(price, current_price, price_per_user, price_per_gig, u, v) ==
    LET cp == IF current_price = NoPrice THEN price ELSE current_price
        price_increase_per_user == DecDiv(Dec(price_per_user), Dec(100))
        additional_cost_for_users ==
            IF u > 0 THEN DecMul(DecMul(price, price_increase_per_user), Dec(u)) ELSE 0
        additional_cost_per_gig ==
            IF v > 0 THEN DecMul(Dec(price_per_gig), Dec(v)) ELSE 0
    IN price + additional_cost_for_users + additional_cost_per_gig

create_invoice(tariff_id, current_additional_users, current_price, additional_volume) ==
    LET row == Catalog[tariff_id]
        np == new_price(DecOfColumn(row.Price), current_price, row.AddedPricePerUser,
                        row.PricePerGig, current_additional_users, additional_volume)
    IN [kind |-> "invoice", tariff |-> tariff_id, u |-> current_additional_users,
        v |-> additional_volume, users |-> row.NumberOfUsers,
        shown |-> int(np), carried |-> np, purchase_id |-> 0]

\* the payload of the confirm control (line 577):
\* paid_{tariff_id}_{total_users}_{total_volume}_{int(new_price)}_{platform}_{duration}
paid_control(invoice) ==
    LET row == Catalog[invoice.tariff]
    IN [tariff_id |-> invoice.tariff, total_users |-> row.NumberOfUsers + invoice.u,
        total_volume |-> invoice.v + row.Volume, amount |-> invoice.shown,
        platform |-> row.Platform, duration |-> row.Duration]

(***************************************************************************)
(* The invoice handlers of callback_inline                                 *)
(* (handlers/callbacks/defualt.py:324-424).  A control is read off a live  *)
(* invoice message; the price field of its identifier is whatever the      *)
(* client sends back, the emitted one or another.                          *)
(***************************************************************************)
\* the most messages a chat holds, and the most extra volume a user asks for
MaxMsgs == 2
MaxVolume == 10

\* config.NUMBER_OF_ALLOWED_USERS
NUMBER_OF_ALLOWED_USERS == 3

\* total_volume += 5, max(0, total_volume - 5)
VolumeStep == 5

\* a price no invoice of the catalog carries
ForgedPrice == Dec(1)

Active(c) == {q \in Procs : fr[q].chat = c /\ pc[q] # "idle" /\ ~Done(q)}

\* every running handler renders at most once
Room(c) == Len(telegram[c]) + Cardinality(Active(c)) < MaxMsgs

InvoiceMessages(c) ==
    {m \in 1..Len(telegram[c]) : telegram[c][m].live /\ telegram[c][m].text.kind = "invoice"}

\* line 350 with <= in place of <
AtMostAllowed(current_additional_users, default_user) ==
    current_additional_users + default_user <= NUMBER_OF_ALLOWED_USERS

\* line 350
BelowAllowed(current_additional_users, default_user) ==
    current_additional_users + default_user < NUMBER_OF_ALLOWED_USERS

\* lines 324-327: 'purchase_<tariff>_<country>_<price>' with a price other than 0
StartOpenInvoice(p, c) ==
    /\ Idle(p)
    /\ \E t \in PaidTariffs :
          /\ Room(c) /\ state[c] = "none"
          /\ Goto(p, "ci467", [InitFrame EXCEPT !.h = "purchase", !.chat = c,
                                 !.tariff_id = t, !.current_price = NoPrice,
                                 !.seen = Finished])
    /\ UNCHANGED <<redis, MessageIds, chat_id_locks, telegram, dbvars>>

\* lines 334-367: 'addUser_...' and 'deductUser_...'
StartUserTap(p, c) ==
    /\ Idle(p)
    /\ \E action \in {"addUser", "deductUser"} :
          /\ Room(c) /\ state[c] = "none"
          /\ \E m \in InvoiceMessages(c) :
             LET ctl == telegram[c][m].text
             IN /\ Catalog[ctl.tariff].UserExtendable
                /\ \E current_price \in {ctl.carried, ForgedPrice} :
                   LET f == [InitFrame EXCEPT !.h = "tap", !.chat = c, !.action = action,
                                !.tariff_id = ctl.tariff, !.u = ctl.u, !.u0 = ctl.u,
                                !.default_user = ctl.users, !.v = ctl.v, !.v0 = ctl.v,
                                !.current_price = current_price, !.seen = Finished]
                   IN IF action = "addUser"
                      THEN IF BelowAllowed(ctl.u, ctl.users)
                           THEN Goto(p, "ci467", [f EXCEPT !.u = @ + 1])
                           ELSE Goto(p, "t354", f)
                      ELSE IF ctl.u > 0
                           THEN Goto(p, "ci467",
                                     [f EXCEPT !.u = IF @ - 1 > 0 THEN @ - 1 ELSE 0])
                           ELSE Goto(p, "t366", f)
    /\ UNCHANGED <<redis, MessageIds, chat_id_locks, telegram, dbvars>>

\* line 401 adding 1 in place of the step
add_one(total_volume) == total_volume + 1

\* line 401: total_volume += 5
add_volume(total_volume) == total_volume + VolumeStep

\* line 404: total_volume = max(0, total_volume - 5)
deduct_volume(total_volume) ==
    IF total_volume - VolumeStep > 0 THEN total_volume - VolumeStep ELSE 0

\* lines 385-408: 'addVolume_...' and 'deductVolume_...'
StartVolumeTap(p, c) ==
    /\ Idle(p)
    /\ \E action \in {"addVolume", "deductVolume"} :
          /\ Room(c) /\ state[c] = "none"
          /\ \E m \in InvoiceMessages(c) :
             LET ctl == telegram[c][m].text
             IN /\ Catalog[ctl.tariff].VolumeExtendable
                /\ action = "addVolume" => ctl.v + VolumeStep <= MaxVolume
                /\ \E current_price \in {ctl.carried, ForgedPrice} :
                   LET f == [InitFrame EXCEPT !.h = "tap", !.chat = c, !.action = action,
                                !.tariff_id = ctl.tariff, !.u = ctl.u, !.u0 = ctl.u,
                                !.default_user = ctl.users, !.v = ctl.v, !.v0 = ctl.v,
                                !.current_price = current_price, !.seen = Finished]
                   IN IF action = "addVolume"
                      THEN Goto(p, "ci467", [f EXCEPT !.v = add_volume(@)])
                      ELSE IF ctl.v > 0
                           THEN Goto(p, "ci467",
                                     [f EXCEPT !.v = deduct_volume(@)])
                           ELSE Goto(p, "t407", f)
    /\ UNCHANGED <<redis, MessageIds, chat_id_locks, telegram, dbvars>>

\* bot_tools.py:467: the tariff row arrives, the invoice is built and handed
\* to edit_or_send_new (defualt.py:328, 379, 419)
ci467(p) ==
    /\ pc[p] = "ci467"
    /\ fr[p].h \in {"purchase", "tap"}
    /\ Goto(p, "glm216",
            EnterRender(fr[p], create_invoice(fr[p].tariff_id, fr[p].u,
                                              fr[p].current_price, fr[p].v), "done"))
    /\ UNCHANGED <<redis, MessageIds, chat_id_locks, telegram, dbvars>>

answer_callback_query(p, label, alert) ==
    /\ pc[p] = label
    /\ Goto(p, "done", [fr[p] EXCEPT !.alert = alert])
    /\ UNCHANGED <<redis, MessageIds, chat_id_locks, telegram, dbvars>>

\* lines 354-359: the alert naming the limit
t354(p) == answer_callback_query(p, "t354", "limit")

\* lines 366-367
t366(p) == answer_callback_query(p, "t366", "ack")

\* lines 407-408
t407(p) == answer_callback_query(p, "t407", "ack")

TapSteps(p) == ci467(p) \/ t354(p) \/ t366(p) \/ t407(p)

\* the handler's coroutine is gone; the next update gets a fresh one
Recycle(p) ==
    /\ Done(p)
    /\ pc' = [pc EXCEPT ![p] = "idle"]
    /\ fr' = [q \in Procs |->
                IF q = p THEN InitFrame ELSE [fr[q] EXCEPT !.seen = @ \ {p}]]
    /\ UNCHANGED <<redis, MessageIds, chat_id_locks, telegram, dbvars>>

InitInvoice ==
    /\ InitCommon
    /\ InitPointers
    /\ BotUsers = [c \in Chats |-> NoRow]

\* the taps of one user arrive one after the other
Quiet == \A q \in Procs : pc[q] = "idle"

\* the update is taken up when no handler is running
OpenInvoice(p) == Quiet /\ StartOpenInvoice(p, TheChat)

UserTap(p) == Quiet /\ StartUserTap(p, TheChat)

VolumeTap(p) == Quiet /\ StartVolumeTap(p, TheChat)

NextInvoice ==
    \/ \E p \in Procs : OpenInvoice(p) \/ UserTap(p) \/ VolumeTap(p)
    \/ \E p \in Procs : TapSteps(p) \/ PointerSteps(p) \/ RenderSteps(p)
    \/ \E p \in Procs : Recycle(p)
    \/ UserDeletes(TheChat)

SpecInvoice == InitInvoice /\ [][NextInvoice]_vars

\* render called when the call before it has returned
RenderAlone(p) ==
    /\ \A q \in Procs : pc[q] = "idle" \/ Done(q)
    /\ Room(TheChat)
    /\ StartRender(p, TheChat)

NextRenderSeq ==
    \/ \E p \in Procs : RenderAlone(p)
    \/ \E p \in Procs : PointerSteps(p) \/ RenderSteps(p)
    \/ \E p \in Procs : Recycle(p)
    \/ UserDeletes(TheChat)

SpecRenderSeq == InitRender /\ [][NextRenderSeq]_vars

(***************************************************************************)
(* create_invoice on its own: the arguments are drawn freely and the       *)
(* function is applied to them.                                            *)
(***************************************************************************)
MaxUsers == 3
MaxGigs == 6

InitPrice ==
    /\ pc = [p \in Procs |-> IF p = 1 THEN "ci467" ELSE "idle"]
    /\ \E t \in PaidTariffs, u \in 0..MaxUsers, v \in 0..MaxGigs,
          current_price \in {NoPrice, ForgedPrice} :
          fr = [p \in Procs |->
                  IF p = 1
                  THEN [InitFrame EXCEPT !.h = "create_invoice", !.chat = 1,
                           !.tariff_id = t, !.u = u, !.v = v,
                           !.current_price = current_price]
                  ELSE InitFrame]
    /\ chat_id_locks = [c \in Chats |-> NoLock]
    /\ PurchaseHistory = <<>>
    /\ state = [c \in Chats |-> "none"]
    /\ panel = <<>>
    /\ redis = [c \in Chats |-> [last_message_id |-> NoValue, purchase_data |-> NoData]]
    /\ MessageIds = [c \in Chats |-> NoMsg]
    /\ telegram = [c \in Chats |-> <<>>]
    /\ BotUsers = [c \in Chats |-> NoRow]

\* the call returns (invoice_text, markup)
ci584(p) ==
    /\ pc[p] = "ci467"
    /\ fr[p].h = "create_invoice"
    /\ Goto(p, "done",
            [fr[p] EXCEPT !.new_text = create_invoice(fr[p].tariff_id, fr[p].u,
                                                      fr[p].current_price, fr[p].v)])
    /\ UNCHANGED <<redis, MessageIds, chat_id_locks, telegram, dbvars>>

NextPrice == \E p \in Procs : ci584(p)

SpecPrice == InitPrice /\ [][NextPrice]_vars

(***************************************************************************)
(* create_invoice on its own with counts of either sign.                   *)
(***************************************************************************)
InitSigned ==
    /\ pc = [p \in Procs |-> IF p = 1 THEN "ci467" ELSE "idle"]
    /\ \E t \in PaidTariffs, u \in (0 - MaxUsers)..MaxUsers, v \in (0 - MaxGigs)..MaxGigs :
          fr = [p \in Procs |->
                  IF p = 1
                  THEN [InitFrame EXCEPT !.h = "create_invoice", !.chat = 1,
                           !.tariff_id = t, !.u = u, !.v = v,
                           !.current_price = NoPrice]
                  ELSE InitFrame]
    /\ chat_id_locks = [c \in Chats |-> NoLock]
    /\ PurchaseHistory = <<>>
    /\ state = [c \in Chats |-> "none"]
    /\ panel = <<>>
    /\ redis = [c \in Chats |-> [last_message_id |-> NoValue, purchase_data |-> NoData]]
    /\ MessageIds = [c \in Chats |-> NoMsg]
    /\ telegram = [c \in Chats |-> <<>>]
    /\ BotUsers = [c \in Chats |-> NoRow]

SpecSigned == InitSigned /\ [][NextPrice]_vars

(***************************************************************************)
(* Shared Cache as the purchase handlers import it                         *)
(* (database/redis_tools.py, imported at handlers/callbacks/defualt.py:37):*)
(* a value is stored as str(value) and read back as that text.             *)
(***************************************************************************)
\* str(value)
str(value) == [value EXCEPT !.enc = "str"]

\* line 72: await redis.set(redis_key, str(value))
set_shared_data(r, c, value) == [r EXCEPT ![c].purchase_data = str(value)]

\* lines 94-97: value.decode("utf-8"), or None
get_shared_data(r, c) == r[c].purchase_data

\* lines 117-119: await redis.delete(redis_key)
delete_shared_data(r, c) == [r EXCEPT ![c].purchase_data = NoData]

\* not purchase_data: None and the empty text are false
Falsy(x) == x.enc = "none"

\* purchase_data["tariff_id"]: a dict has the key, a str raises TypeError
Subscriptable(x) == x.enc = "dict"

(***************************************************************************)
(* Control identifiers (callback_data).  A text is a sequence of tokens:   *)
(* the digits, "_", ".", "-" and whole words that hold no "_".             *)
(***************************************************************************)
DigitChars == <<"0", "1", "2", "3", "4", "5", "6", "7", "8", "9">>

RECURSIVE digits(_)
\* str(chat_id) inside the f-string
digits(n) ==
    IF n < 10 THEN <<DigitChars[n + 1]>>
    ELSE digits(n \div 10) \o <<DigitChars[(n % 10) + 1]>>

IsDigits(t) == t # <<>> /\ \A i \in 1..Len(t) : \E d \in 1..10 : DigitChars[d] = t[i]

RECURSIVE digits_value(_)
digits_value(t) ==
    IF t = <<>> THEN 0
    ELSE digits_value(SubSeq(t, 1, Len(t) - 1)) * 10
         + ((CHOOSE d \in 1..10 : DigitChars[d] = t[Len(t)]) - 1)

\* int(text) returns: otherwise it raises ValueError
IsInt(t) == IF t # <<>> /\ t[1] = "-" THEN IsDigits(Tail(t)) ELSE IsDigits(t)

\* int(text)
int_text(t) == IF t[1] = "-" THEN 0 - digits_value(Tail(t)) ELSE digits_value(t)

RECURSIVE pad(_, _)
pad(t, n) == IF Len(t) >= n THEN t ELSE pad(<<"0">> \o t, n)

\* f"{new_price}": str() of a non-negative Decimal, four fraction digits
str_decimal(d) == digits(d \div Scale) \o <<".">> \o pad(digits(d % Scale), 4)

\* Decimal(text) returns: otherwise it raises decimal.InvalidOperation
IsDecimal(t) ==
    \/ IsDigits(t)
    \/ \E i \in 1..Len(t) :
          /\ t[i] = "."
          /\ IsDigits(SubSeq(t, 1, i - 1))
          /\ IsDigits(SubSeq(t, i + 1, Len(t)))

\* Decimal(text)
Decimal_text(t) ==
    IF IsDigits(t) THEN Dec(digits_value(t))
    ELSE LET i == CHOOSE i \in 1..Len(t) : t[i] = "."
             fraction == SubSeq(t, i + 1, Len(t)) \o <<"0", "0", "0", "0">>
         IN Dec(digits_value(SubSeq(t, 1, i - 1))) + digits_value(SubSeq(fraction, 1, 4))

RECURSIVE join(_)
\* the f-string of an identifier: its fields with "_" between them
join(fields) ==
    IF Len(fields) = 0 THEN <<>>
    ELSE IF Len(fields) = 1 THEN fields[1]
    ELSE fields[1] \o <<"_">> \o join(Tail(fields))

RECURSIVE split(_)
\* callback_data.split("_")
split(t) ==
    IF \A i \in 1..Len(t) : t[i] # "_" THEN <<t>>
    ELSE LET i == CHOOSE i \in 1..Len(t) :
                     t[i] = "_" /\ \A j \in 1..(i - 1) : t[j] # "_"
         IN <<SubSeq(t, 1, i - 1)>> \o split(SubSeq(t, i + 1, Len(t)))

\* utils/bot_tools.py:546-552: the payload of the two user controls with the
\* volume before the default users
user_data_volume_first(action, tariff_id, current_additional_users, np, users, additional_volume, country_id) ==
    join(<<(<<action>>), digits(tariff_id), digits(current_additional_users),
           str_decimal(np), digits(additional_volume), digits(users),
           digits(country_id)>>)

\* utils/bot_tools.py:546-552:
\* {action}_{tariff_id}_{current_additional_users}_{new_price}_{users}_{additional_volume}_{country_id}
user_data(action, tariff_id, current_additional_users, np, users, additional_volume, country_id) ==
    join(<<(<<action>>), digits(tariff_id), digits(current_additional_users),
           str_decimal(np), digits(users), digits(additional_volume),
           digits(country_id)>>)

\* utils/bot_tools.py:561-568:
\* {action}_{tariff_id}_{additional_volume}_{new_price}_{current_additional_users}_{country_id}
volume_data(action, tariff_id, additional_volume, np, current_additional_users, country_id) ==
    join(<<(<<action>>), digits(tariff_id), digits(additional_volume),
           str_decimal(np), digits(current_additional_users), digits(country_id)>>)

\* utils/bot_tools.py:577:
\* paid_{tariff_id}_{total_users}_{total_volume}_{int(new_price)}_{platform}_{duration}
paid_data(invoice) ==
    LET ctl == paid_control(invoice)
    IN join(<<(<<"paid">>), digits(ctl.tariff_id), digits(ctl.total_users),
              digits(ctl.total_volume), digits(ctl.amount), (<<ctl.platform>>),
              digits(ctl.duration)>>)

\* utils/bot_tools.py:538-579: the identifiers of the controls of the invoice
\* that create_invoice(tariff_id, country_id, ...) returns
controls(tariff_id, country_id, current_additional_users, current_price, additional_volume) ==
    LET row == Catalog[tariff_id]
        invoice == create_invoice(tariff_id, current_additional_users, current_price,
                                  additional_volume)
    IN (IF row.UserExtendable
        THEN {user_data(action, tariff_id, current_additional_users, invoice.carried,
                        row.NumberOfUsers, additional_volume, country_id) :
                 action \in {"addUser", "deductUser"}}
        ELSE {})
       \cup
       (IF row.VolumeExtendable
        THEN {volume_data(action, tariff_id, additional_volume, invoice.carried,
                          current_additional_users, country_id) :
                 action \in {"addVolume", "deductVolume"}}
        ELSE {})
       \cup {paid_data(invoice)}

\* a tuple assignment of n names raises ValueError on another count
unpacks(fields, n) == Len(fields) = n

ValueError == [action |-> "ValueError"]

\* defualt.py:334-347, 371-377: what the 'addUser'/'deductUser' branch reads
user_args(callback_data) ==
    LET fields == split(callback_data)
    IN IF unpacks(fields, 7) /\ IsInt(fields[2]) /\ IsInt(fields[3])
          /\ IsInt(fields[5]) /\ IsInt(fields[7]) /\ IsDecimal(fields[4])
          /\ IsInt(fields[6])
       THEN [action |-> fields[1][1], tariff_id |-> int_text(fields[2]),
             current_additional_users |-> int_text(fields[3]),
             current_price |-> Decimal_text(fields[4]),
             default_user |-> int_text(fields[5]),
             additional_volume |-> int_text(fields[6]),
             country_id |-> int_text(fields[7])]
       ELSE ValueError

\* defualt.py:385-398, 411-417: what the 'addVolume'/'deductVolume' branch reads
volume_args(callback_data) ==
    LET fields == split(callback_data)
    IN IF unpacks(fields, 6) /\ IsInt(fields[2]) /\ IsInt(fields[3])
          /\ IsInt(fields[6]) /\ IsInt(fields[5]) /\ IsDecimal(fields[4])
       THEN [action |-> fields[1][1], tariff_id |-> int_text(fields[2]),
             current_additional_users |-> int_text(fields[5]),
             current_price |-> Decimal_text(fields[4]),
             default_user |-> 0,
             additional_volume |-> int_text(fields[3]),
             country_id |-> int_text(fields[6])]
       ELSE ValueError

\* defualt.py:425-434: the 'paid_' branch unpacks seven fields
paid_fields(callback_data) == split(callback_data)

\* defualt.py:449-452: the four int() conversions return
paid_ints(fields) ==
    IsInt(fields[2]) /\ IsInt(fields[3]) /\ IsInt(fields[4]) /\ IsInt(fields[5])

\* a word is one token; duration is kept as the text it arrived as, a
\* number in the model (0 when the text is none)
word(t) == IF Len(t) = 1 THEN t[1] ELSE "none"

\* defualt.py:448-457: purchase_data of the fields
paid_args(fields, purchase_id) ==
    [enc |-> "dict", tariff_id |-> int_text(fields[2]), users |-> int_text(fields[3]),
     volume |-> int_text(fields[4]), amount |-> int_text(fields[5]),
     purchase_id |-> purchase_id, platform |-> word(fields[6]),
     duration |-> IF IsInt(fields[7]) THEN int_text(fields[7]) ELSE 0]

(***************************************************************************)
(* create_invoice and the branch that reads one of its controls, on their  *)
(* own: the arguments are drawn freely, one control is tapped.             *)
(***************************************************************************)
CountryIds == {1, 12}

Volumes == {0, VolumeStep, 2 * VolumeStep}

InitControls ==
    /\ pc = [p \in Procs |-> IF p = 1 THEN "ci538" ELSE "idle"]
    /\ \E t \in PaidTariffs, country_id \in CountryIds, u \in 0..MaxUsers,
          v \in Volumes, current_price \in {NoPrice, ForgedPrice} :
          fr = [p \in Procs |->
                  IF p = 1
                  THEN [InitFrame EXCEPT !.h = "controls", !.chat = 1,
                           !.tariff_id = t, !.country_id = country_id, !.u = u,
                           !.v = v, !.current_price = current_price]
                  ELSE InitFrame]
    /\ chat_id_locks = [c \in Chats |-> NoLock]
    /\ PurchaseHistory = <<>>
    /\ state = [c \in Chats |-> "none"]
    /\ panel = <<>>
    /\ redis = [c \in Chats |-> [last_message_id |-> NoValue, purchase_data |-> NoData]]
    /\ MessageIds = [c \in Chats |-> NoMsg]
    /\ telegram = [c \in Chats |-> <<>>]
    /\ BotUsers = [c \in Chats |-> NoRow]

\* the invoice is shown and the user taps one of its controls
ci538(p) ==
    /\ pc[p] = "ci538"
    /\ \E d \in controls(fr[p].tariff_id, fr[p].country_id, fr[p].u,
                          fr[p].current_price, fr[p].v) :
          Goto(p, "cb62", [fr[p] EXCEPT !.callback_data = d])
    /\ UNCHANGED <<redis, MessageIds, chat_id_locks, telegram, dbvars>>

\* defualt.py:334, 385, 425: the branch of the identifier reads its fields
cb62(p) ==
    /\ pc[p] = "cb62"
    /\ LET d == fr[p].callback_data
           action == Head(d)
           args == IF action \in {"addUser", "deductUser"} THEN user_args(d)
                   ELSE IF action \in {"addVolume", "deductVolume"} THEN volume_args(d)
                   ELSE IF unpacks(paid_fields(d), 7) /\ paid_ints(paid_fields(d))
                        THEN paid_args(paid_fields(d), 0)
                        ELSE ValueError
       IN Goto(p, "done", [fr[p] EXCEPT !.action = action, !.args = args])
    /\ UNCHANGED <<redis, MessageIds, chat_id_locks, telegram, dbvars>>

NextControls == \E p \in Procs : ci538(p) \/ cb62(p)

SpecControls == InitControls /\ [][NextControls]_vars

(***************************************************************************)
(* The 'paid_' branch (handlers/callbacks/defualt.py:425-475).             *)
(***************************************************************************)
\* the update is taken up when no handler of the user is running
UserQuiet(c) == \A q \in Procs : pc[q] = "idle" \/ fr[q].h = "approve" \/ fr[q].chat # c

\* lines 425-434: the seven fields of the identifier; another count raises
\* ValueError at the tuple assignment
dispatch_paid(p, c, callback_data) ==
    LET f == [InitFrame EXCEPT !.h = "paid", !.chat = c, !.seen = Finished,
                 !.callback_data = callback_data,
                 !.data = paid_fields(callback_data)]
    IN IF unpacks(f.data, 7) THEN Goto(p, "p438", f) ELSE Raise(p, f)

\* the identifier of the confirm control of a live invoice
StartPaid(p, c) ==
    /\ Idle(p)
    /\ state[c] = "none"
    /\ \E m \in InvoiceMessages(c) : dispatch_paid(p, c, paid_data(telegram[c][m].text))
    /\ UNCHANGED <<redis, MessageIds, chat_id_locks, telegram, dbvars>>

\* lines 436-442: INSERT INTO PurchaseHistory (ChatID, TariffID, Amount) with
\* Decimal(amount); a TariffID that is no number is refused by the store
p438(p) ==
    /\ pc[p] = "p438"
    /\ IF IsDecimal(fr[p].data[5]) /\ IsInt(fr[p].data[2])
       THEN /\ PurchaseHistory' =
                  Append(PurchaseHistory,
                         [ChatID |-> fr[p].chat, TariffID |-> int_text(fr[p].data[2]),
                          Amount |-> int(Decimal_text(fr[p].data[5])),
                          Status |-> "pending", SubscriptionURL |-> "NULL"])
            /\ Goto(p, "p444",
                    [fr[p] EXCEPT !.purchase_data.purchase_id = Len(PurchaseHistory) + 1])
       ELSE /\ Raise(p, fr[p])
            /\ UNCHANGED PurchaseHistory
    /\ UNCHANGED <<redis, MessageIds, chat_id_locks, telegram, BotUsers, state, panel>>

\* lines 443-446: SELECT CustomName FROM BotUsers
p444(p) ==
    /\ pc[p] = "p444"
    /\ Goto(p, "p458", fr[p])
    /\ UNCHANGED <<redis, MessageIds, chat_id_locks, telegram, dbvars>>

\* lines 448-458: the int() conversions, then
\* set_shared_data(chat_id, "purchase_data", purchase_data)
p458(p) ==
    /\ pc[p] = "p458"
    /\ IF paid_ints(fr[p].data)
       THEN LET purchase_data == paid_args(fr[p].data, fr[p].purchase_data.purchase_id)
            IN /\ redis' = set_shared_data(redis, fr[p].chat, purchase_data)
               /\ Goto(p, "p472", [fr[p] EXCEPT !.purchase_data = purchase_data])
       ELSE /\ Raise(p, fr[p])
            /\ UNCHANGED redis
    /\ UNCHANGED <<MessageIds, chat_id_locks, telegram, dbvars>>

\* lines 460-471: the prompt with its control 'cancelPurchase_<purchase_id>'
prompt(purchase_id) == [Txt("prompt") EXCEPT !.purchase_id = purchase_id]

\* lines 472-475: InputPhotoState.wait_for_photo.set(), then the prompt
p472(p) ==
    /\ pc[p] = "p472"
    /\ state' = [state EXCEPT ![fr[p].chat] = "wait_for_photo"]
    /\ Goto(p, "glm216",
            EnterRender(fr[p], prompt(fr[p].purchase_data.purchase_id), "done"))
    /\ UNCHANGED <<redis, MessageIds, chat_id_locks, telegram, BotUsers,
                   PurchaseHistory, panel>>

PaidSteps(p) == p438(p) \/ p444(p) \/ p458(p) \/ p472(p)

(***************************************************************************)
(* The 'confirm_payment_' branch (handlers/callbacks/defualt.py:476-586).  *)
(* The draft read at line 481 is the text str() made of it, so line 494    *)
(* raises TypeError and the handler ends in its except clause: with the    *)
(* cache the handlers import, lines 495-581 are not run.                   *)
(***************************************************************************)
\* an administrator taps 'confirm_payment_<c>'
StartApprove(p, c) ==
    /\ Idle(p)
    /\ Goto(p, "a479", [InitFrame EXCEPT !.h = "approve", !.chat = c,
                                         !.catch = "a582", !.seen = Finished])
    /\ UNCHANGED <<redis, MessageIds, chat_id_locks, telegram, dbvars>>

\* line 479: await bot.answer_callback_query(call.id)
a479(p) ==
    /\ pc[p] = "a479"
    /\ Goto(p, "a481", fr[p])
    /\ UNCHANGED <<redis, MessageIds, chat_id_locks, telegram, dbvars>>

\* the error of the backend taken for a key that is not stored
absent_on_error(p) ==
    Goto(p, "a487", [fr[p] EXCEPT !.cache = "unavailable"])

\* database/redis_tools.py:98-100: except aioredis.RedisError: logger.error, raise
raise_on_error(p) ==
    Raise(p, [fr[p] EXCEPT !.cache = "unavailable"])

\* lines 481-485: purchase_data = await get_shared_data(...); if not purchase_data
a481(p) ==
    /\ pc[p] = "a481"
    /\ \/ LET purchase_data == get_shared_data(redis, fr[p].chat)
          IN Goto(p, IF Falsy(purchase_data) THEN "a487" ELSE "a491",
                  [fr[p] EXCEPT !.purchase_data = purchase_data, !.cache = "read"])
       \/ raise_on_error(p)
    /\ UNCHANGED <<redis, MessageIds, chat_id_locks, telegram, dbvars>>

\* lines 486-490: the 'data not found' alert
a487(p) ==
    /\ pc[p] = "a487"
    /\ Goto(p, "done", [fr[p] EXCEPT !.out = "not_found", !.alert = "not_found"])
    /\ UNCHANGED <<redis, MessageIds, chat_id_locks, telegram, dbvars>>

\* lines 491-500 and 582-586: delete_shared_data, then the fields of the draft
a491(p) ==
    /\ pc[p] = "a491"
    /\ redis' = delete_shared_data(redis, fr[p].chat)
    /\ IF Subscriptable(fr[p].purchase_data)
       THEN Goto(p, "a504", fr[p])
       ELSE Goto(p, "done", [fr[p] EXCEPT !.out = "error"])
    /\ UNCHANGED <<MessageIds, chat_id_locks, telegram, dbvars>>

\* lines 582-586: except Exception: logger.error
a582(p) ==
    /\ pc[p] = "a582"
    /\ Goto(p, "done", [fr[p] EXCEPT !.out = "error"])
    /\ UNCHANGED <<redis, MessageIds, chat_id_locks, telegram, dbvars>>

ApproveSteps(p) == a479(p) \/ a481(p) \/ a487(p) \/ a491(p) \/ a582(p)

Purchase(p) == UserQuiet(TheChat) /\ StartOpenInvoice(p, TheChat)

Paid(p) == UserQuiet(TheChat) /\ Room(TheChat) /\ StartPaid(p, TheChat)

Approve(p) == StartApprove(p, TheChat)

InitApprove ==
    /\ InitCommon
    /\ InitPointers
    /\ BotUsers = [c \in Chats |-> NoRow]

NextApprove ==
    \/ \E p \in Procs : Purchase(p) \/ Paid(p) \/ Approve(p)
    \/ \E p \in Procs : ci467(p) \/ PaidSteps(p) \/ ApproveSteps(p)
    \/ \E p \in Procs : PointerSteps(p) \/ RenderSteps(p)
    \/ \E p \in Procs : Recycle(p)
    \/ UserDeletes(TheChat)

SpecApprove == InitApprove /\ [][NextApprove]_vars

(***************************************************************************)
(* The free path of the 'purchase_' branch                                 *)
(* (handlers/callbacks/defualt.py:194-322).  The gateway is                *)
(* CreateUserFactory.get_create_user_handler(platform).create_user         *)
(* (service_handler/factory.py, service_handler/xui_panel.py), which       *)
(* re-raises what the panel raises.                                        *)
(***************************************************************************)
FreeTariffs == {t \in TariffIds : Catalog[t].Price = 0}

\* line 209 with the flag never seen as set
NoRight(row) == FALSE

\* lines 206-209: (has_right,) = ...; if has_right
HasRight(row) == row.UsedTestAcount

\* lines 194-197: 'purchase_<tariff>_<country>_0'
StartFree(p, c) ==
    /\ Idle(p)
    /\ state[c] = "none"
    /\ \E t \in FreeTariffs :
          Goto(p, "f206", [InitFrame EXCEPT !.h = "free", !.chat = c, !.tariff_id = t,
                                            !.pre = BotUsers[c].UsedTestAcount,
                                            !.seen = Finished])
    /\ UNCHANGED <<redis, MessageIds, chat_id_locks, telegram, dbvars>>

\* lines 206-217: SELECT UsedTestAcount FROM BotUsers
f206(p) ==
    /\ pc[p] = "f206"
    /\ LET has_right == HasRight(BotUsers[fr[p].chat])
       IN IF has_right
          THEN Goto(p, "f210", [fr[p] EXCEPT !.has_right = TRUE])
          ELSE Goto(p, "f232", [fr[p] EXCEPT !.has_right = FALSE, !.catch = "f318"])
    /\ UNCHANGED <<redis, MessageIds, chat_id_locks, telegram, dbvars>>

\* lines 210-215: the 'already used' alert
f210(p) == answer_callback_query(p, "f210", "already_used")

\* lines 232-235: the tariff with its subscription and server
f232(p) ==
    /\ pc[p] = "f232"
    /\ Goto(p, IF Catalog[fr[p].tariff_id].Server THEN "f258" ELSE "f236", fr[p])
    /\ UNCHANGED <<redis, MessageIds, chat_id_locks, telegram, dbvars>>

\* lines 236-241
f236(p) == answer_callback_query(p, "f236", "no_order_info")

\* lines 258-275: the user's name; only the platform "xui" is provisioned
f258(p) ==
    /\ pc[p] = "f258"
    /\ IF Catalog[fr[p].tariff_id].Platform = "xui"
       THEN Goto(p, "f279", fr[p])
       ELSE Goto(p, "done", [fr[p] EXCEPT !.out = "no_platform"])
    /\ UNCHANGED <<redis, MessageIds, chat_id_locks, telegram, dbvars>>

\* lines 278-285: subscription_url = await handler.create_user(...)
f279(p) ==
    /\ pc[p] = "f279"
    /\ \/ /\ panel' = Append(panel, [chat |-> fr[p].chat, via |-> "free", by |-> p,
                                     purchase_id |-> 0])
          /\ Goto(p, "f300", fr[p])
       \/ /\ Raise(p, fr[p])
          /\ UNCHANGED panel
    /\ UNCHANGED <<redis, MessageIds, chat_id_locks, telegram, BotUsers,
                   PurchaseHistory, state>>

\* lines 295-305: UPDATE BotUsers SET UsedTestAcount=1, then get_last_message_id
f300(p) ==
    /\ pc[p] = "f300"
    /\ \/ /\ BotUsers' = [BotUsers EXCEPT ![fr[p].chat].UsedTestAcount = TRUE]
          /\ Goto(p, "glm216", Call(fr[p], "f306"))
       \/ /\ Raise(p, fr[p])
          /\ UNCHANGED BotUsers
    /\ UNCHANGED <<redis, MessageIds, chat_id_locks, telegram, PurchaseHistory,
                   state, panel>>

\* line 306: await bot.delete_message(chat_id, last_msg_id)
f306(p) ==
    /\ pc[p] = "f306"
    /\ LET c == fr[p].chat
           f == [fr[p] EXCEPT !.last_msg_id = fr[p].val]
       IN IF Live(c, f.last_msg_id)
          THEN /\ telegram' = DeleteMessage(telegram, c, f.last_msg_id)
               /\ Goto(p, "f307", f)
          ELSE /\ Raise(p, f)
               /\ UNCHANGED telegram
    /\ UNCHANGED <<redis, MessageIds, chat_id_locks, dbvars>>

\* lines 307-311: the purchase text, then reset_last_message_id
f307(p) ==
    /\ pc[p] = "f307"
    /\ \/ /\ telegram' = SendMessage(telegram, fr[p].chat, Txt("purchase"))
          /\ Goto(p, "rst246", Call([fr[p] EXCEPT !.sent = @ + 1], "f314"))
       \/ /\ Raise(p, fr[p])
          /\ UNCHANGED telegram
    /\ UNCHANGED <<redis, MessageIds, chat_id_locks, dbvars>>

\* lines 312-317: the main menu, then store_message_id
f314(p) ==
    /\ pc[p] = "f314"
    /\ \/ /\ telegram' = SendMessage(telegram, fr[p].chat, Txt("menu"))
          /\ Goto(p, "smi198",
                  Call([fr[p] EXCEPT !.message_id = Len(telegram[fr[p].chat]) + 1,
                                     !.sent = @ + 1], "done"))
       \/ /\ Raise(p, fr[p])
          /\ UNCHANGED telegram
    /\ UNCHANGED <<redis, MessageIds, chat_id_locks, dbvars>>

\* lines 318-322: except Exception: logger.error
f318(p) ==
    /\ pc[p] = "f318"
    /\ Goto(p, "done", [fr[p] EXCEPT !.out = "error"])
    /\ UNCHANGED <<redis, MessageIds, chat_id_locks, telegram, dbvars>>

FreeSteps(p) ==
    \/ f206(p) \/ f210(p) \/ f232(p) \/ f236(p) \/ f258(p) \/ f279(p)
    \/ f300(p) \/ f306(p) \/ f307(p) \/ f314(p) \/ f318(p)

ResetSteps(p) == rst246(p) \/ rst250(p)

Free(p) == StartFree(p, TheChat)

\* a user who has, or has not, used the test account
InitFree ==
    /\ InitCommon
    /\ InitPointers
    /\ BotUsers \in [Chats -> {[UsedTestAcount |-> b] : b \in BOOLEAN}]

NextFree ==
    \/ \E p \in Procs : Free(p)
    \/ \E p \in Procs : FreeSteps(p)
    \/ \E p \in Procs : PointerSteps(p) \/ ResetSteps(p)

SpecFree == InitFree /\ [][NextFree]_vars

(***************************************************************************)
(* The 'cancelPurchase_' handler (handlers/default_handlers.py:74-109) and *)
(* the receipt photo handler (handlers/default_handlers.py:112-194).  The  *)
(* dispatcher hands an update to either of them only while the chat's      *)
(* conversation state is InputPhotoState.wait_for_photo.                   *)
(***************************************************************************)
MaxPurchases == 2

\* the live prompts of chat c, each with its control 'cancelPurchase_<id>'
PromptMessages(c) ==
    {m \in 1..Len(telegram[c]) : telegram[c][m].live /\ telegram[c][m].text.kind = "prompt"}

\* the conversation state left as it is
abandon(st, c) == st

\* line 82: await state.finish()
finish(st, c) == [st EXCEPT ![c] = "none"]

\* lines 74-81: the filter of the handler and the identifier of the control
StartCancel(p, c) ==
    /\ Idle(p)
    /\ Room(c) /\ state[c] = "wait_for_photo"
    /\ \E m \in PromptMessages(c) :
          Goto(p, "c80", [InitFrame EXCEPT !.h = "cancel", !.chat = c, !.catch = "c107",
                             !.seen = Finished,
                             !.purchase_data.purchase_id = telegram[c][m].text.purchase_id])
    /\ UNCHANGED <<redis, MessageIds, chat_id_locks, telegram, dbvars>>

\* line 80: await bot.answer_callback_query(call.id)
c80(p) ==
    /\ pc[p] = "c80"
    /\ Goto(p, "c82", fr[p])
    /\ UNCHANGED <<redis, MessageIds, chat_id_locks, telegram, dbvars>>

\* line 82: await state.finish()
c82(p) ==
    /\ pc[p] = "c82"
    /\ state' = finish(state, fr[p].chat)
    /\ Goto(p, "c85", [fr[p] EXCEPT !.left = state[fr[p].chat] = "wait_for_photo"])
    /\ UNCHANGED <<redis, MessageIds, chat_id_locks, telegram, BotUsers,
                   PurchaseHistory, panel>>

\* lines 85-102: UPDATE PurchaseHistory SET Status = 'cancel' WHERE PurchaseID=%s,
\* then the main menu; execute_query re-raises the error of the database
c85(p) ==
    /\ pc[p] = "c85"
    /\ \/ /\ PurchaseHistory' =
                [PurchaseHistory EXCEPT ![fr[p].purchase_data.purchase_id].Status = "cancel"]
          /\ Goto(p, "glm216", EnterRender(fr[p], Txt("menu"), "done"))
       \/ /\ Raise(p, fr[p])
          /\ UNCHANGED PurchaseHistory
    /\ UNCHANGED <<redis, MessageIds, chat_id_locks, telegram, BotUsers, state, panel>>

\* lines 103-106: except Exception: await call.message.reply(...)
c107(p) ==
    /\ pc[p] = "c107"
    /\ \/ /\ telegram' = SendMessage(telegram, fr[p].chat, Txt("error"))
          /\ Goto(p, "done", [fr[p] EXCEPT !.out = "error"])
       \/ /\ Goto(p, "raised", [fr[p] EXCEPT !.out = "error"])
          /\ UNCHANGED telegram
    /\ UNCHANGED <<redis, MessageIds, chat_id_locks, dbvars>>

CancelSteps(p) == c80(p) \/ c82(p) \/ c85(p) \/ c107(p)

\* the newest Purchase Record of chat c is cancelled
LatestCancelled(c) ==
    LET mine == {i \in 1..Len(PurchaseHistory) : PurchaseHistory[i].ChatID = c}
    IN /\ mine # {}
       /\ \A i \in mine : (\A j \in mine : j <= i) => PurchaseHistory[i].Status = "cancel"

\* lines 112-135: the filter of the handler (content type PHOTO)
StartPhoto(p, c) ==
    /\ Idle(p)
    /\ state[c] = "wait_for_photo"
    /\ Goto(p, "h136", [InitFrame EXCEPT !.h = "photo", !.chat = c, !.seen = Finished,
                                         !.catch = "h189",
                                         !.pre = LatestCancelled(c)])
    /\ UNCHANGED <<redis, MessageIds, chat_id_locks, telegram, dbvars>>

\* lines 136-138 and 189-194: get_shared_data, then purchase_data["amount"];
\* the TypeError of a text or of None is logged by except Exception
h136(p) ==
    /\ pc[p] = "h136"
    /\ LET purchase_data == get_shared_data(redis, fr[p].chat)
       IN IF Subscriptable(purchase_data)
          THEN Goto(p, "h140", [fr[p] EXCEPT !.purchase_data = purchase_data])
          ELSE Goto(p, "done", [fr[p] EXCEPT !.purchase_data = purchase_data,
                                             !.out = "error"])
    /\ UNCHANGED <<redis, MessageIds, chat_id_locks, telegram, dbvars>>

\* the administrators of config.ADMINS
NumAdmins == 2

\* lines 140-147: the photo is deleted from the chat, then the notification
\* is rendered
h140(p) ==
    /\ pc[p] = "h140"
    /\ \/ Goto(p, "glm216", EnterRender(fr[p], Txt("receipt"), "h150"))
       \/ Raise(p, fr[p])
    /\ UNCHANGED <<redis, MessageIds, chat_id_locks, telegram, dbvars>>

\* line 150: await state.finish()
h150(p) ==
    /\ pc[p] = "h150"
    /\ state' = [state EXCEPT ![fr[p].chat] = "none"]
    /\ Goto(p, "h156", [fr[p] EXCEPT !.left = state[fr[p].chat] = "wait_for_photo"])
    /\ UNCHANGED <<redis, MessageIds, chat_id_locks, telegram, BotUsers,
                   PurchaseHistory, panel>>

\* lines 154-158: SELECT UserID FROM BotUsers
h156(p) ==
    /\ pc[p] = "h156"
    /\ \/ Goto(p, "h179", fr[p])
       \/ Raise(p, fr[p])
    /\ UNCHANGED <<redis, MessageIds, chat_id_locks, telegram, dbvars>>

\* lines 178-188: send_photo with the controls 'confirm_payment_<chat>' and
\* 'reject_payment_<chat>' to the next administrator, whose pointer is stored
h179(p) ==
    /\ pc[p] = "h179"
    /\ \/ LET f == [fr[p] EXCEPT !.admins = @ + 1]
          IN IF f.admins = NumAdmins
             THEN Goto(p, "done", [f EXCEPT !.out = "forwarded"])
             ELSE Goto(p, "h179", f)
       \/ Raise(p, fr[p])
    /\ UNCHANGED <<redis, MessageIds, chat_id_locks, telegram, dbvars>>

\* lines 189-194: except MessageToDeleteNotFound, except Exception: logger.error
h189(p) ==
    /\ pc[p] = "h189"
    /\ Goto(p, "done", [fr[p] EXCEPT !.out = "error"])
    /\ UNCHANGED <<redis, MessageIds, chat_id_locks, telegram, dbvars>>

PhotoSteps(p) == h136(p) \/ h140(p) \/ h150(p) \/ h156(p) \/ h179(p) \/ h189(p)

\* the next order of a user who has ordered before
PaidAgain(p) ==
    /\ UserQuiet(TheChat)
    /\ Len(PurchaseHistory) < MaxPurchases
    /\ Room(TheChat)
    /\ StartPaid(p, TheChat)

Cancel(p) == UserQuiet(TheChat) /\ StartCancel(p, TheChat)

Photo(p) == StartPhoto(p, TheChat)

NextOrder ==
    \/ \E p \in Procs : Purchase(p) \/ PaidAgain(p) \/ Cancel(p) \/ Photo(p) \/ Approve(p)
    \/ \E p \in Procs : ci467(p) \/ PaidSteps(p) \/ CancelSteps(p) \/ h136(p)
    \/ \E p \in Procs : ApproveSteps(p)
    \/ \E p \in Procs : PointerSteps(p) \/ RenderSteps(p)
    \/ \E p \in Procs : Recycle(p)
    \/ UserDeletes(TheChat)

SpecOrder == InitApprove /\ [][NextOrder]_vars

\* the 'paid' control tapped again while a 'paid' handler is still running
PaidTap(p) == Len(telegram[TheChat]) < MaxMsgs /\ StartPaid(p, TheChat)

NextPaidTwice ==
    \/ \E p \in Procs : Purchase(p) \/ PaidTap(p) \/ Photo(p)
    \/ \E p \in Procs : ci467(p) \/ PaidSteps(p) \/ h136(p)
    \/ \E p \in Procs : PointerSteps(p) \/ RenderSteps(p)
    \/ \E p \in Procs : Recycle(p)
    \/ UserDeletes(TheChat)

SpecPaidTwice == InitApprove /\ [][NextPaidTwice]_vars

(***************************************************************************)
(* Lines 502-586 of the 'confirm_payment_' branch: the provisioning of a   *)
(* draft whose fields line 494-500 could read.  They run from a cache that *)
(* hands the draft back as the record the 'paid' branch built, which the   *)
(* cache imported at line 37 does not (it hands back text, see above):     *)
(* InitProvision is the state 'paid' leaves behind with that one           *)
(* difference, and SpecProvision is what approval and cancellation do     *)
(* from there.                                                             *)
(***************************************************************************)
\* factory.py:31-40 with XUIPanel for every platform that is not 'hiddify'
xui_by_default(platform) ==
    IF platform = "hiddify" THEN "HiddifyPanel" ELSE "XUIPanel"

\* service_handler/factory.py:26-40
get_create_user_handler(platform) ==
    IF platform = "xui" THEN "XUIPanel"
    ELSE IF platform = "hiddify" THEN "HiddifyPanel"
    ELSE "None"

\* lines 503-510: the notice to every administrator (get_last_message_id,
\* delete_message, send_message, reset_last_message_id in the administrator's
\* chat, which is outside the model): the calls go through or one raises
a504(p) ==
    /\ pc[p] = "a504"
    /\ \/ Goto(p, "a522", fr[p])
       \/ Raise(p, fr[p])
    /\ UNCHANGED <<redis, MessageIds, chat_id_locks, telegram, dbvars>>

\* lines 511-543: the server of the tariff; without one the handler returns
a522(p) ==
    /\ pc[p] = "a522"
    /\ LET result == Catalog[fr[p].purchase_data.tariff_id].Server
       IN IF result
          THEN Goto(p, "a546", fr[p])
          ELSE Goto(p, "done", [fr[p] EXCEPT !.out = "no_server"])
    /\ UNCHANGED <<redis, MessageIds, chat_id_locks, telegram, dbvars>>

\* lines 545-553: handler.create_user.  XUIPanel.create_user re-raises what
\* the panel raised (xui_panel.py:63-67), HiddifyPanel.create_user logs it
\* and returns None (hiddify_panel.py:24-28), and the None of an
\* unrecognised platform has no create_user (AttributeError).
a546(p) ==
    /\ pc[p] = "a546"
    /\ LET handler == get_create_user_handler(fr[p].purchase_data.platform)
           created == Append(panel, [chat |-> fr[p].chat, via |-> "approve", by |-> p,
                                     purchase_id |-> fr[p].purchase_data.purchase_id])
       IN \/ /\ handler # "None"
             /\ panel' = created
             /\ Goto(p, "a562", [fr[p] EXCEPT !.out = "sub_url"])
          \/ /\ handler = "HiddifyPanel"
             /\ Goto(p, "a562", [fr[p] EXCEPT !.out = "None", !.failed = TRUE])
             /\ UNCHANGED panel
          \/ /\ handler # "HiddifyPanel"
             /\ Raise(p, [fr[p] EXCEPT !.failed = TRUE])
             /\ UNCHANGED panel
    /\ UNCHANGED <<redis, MessageIds, chat_id_locks, telegram, BotUsers,
                   PurchaseHistory, state>>

\* lines 562-564: UPDATE PurchaseHistory SET Status=4, SubscriptionURL=%s
\* WHERE PurchaseID=%s; 4 is 'completed' in the enum of schema.py:88, and a
\* None parameter is stored as NULL
UpdateStatus(history, purchase_id, subscription_url) ==
    [history EXCEPT ![purchase_id].Status = "completed",
                    ![purchase_id].SubscriptionURL =
                        IF subscription_url = "None" THEN "NULL" ELSE subscription_url]

\* lines 566-572: the UPDATE, then get_last_message_id(user_chat_id)
a562(p) ==
    /\ pc[p] = "a562"
    /\ \/ /\ PurchaseHistory' =
                UpdateStatus(PurchaseHistory, fr[p].purchase_data.purchase_id, fr[p].out)
          /\ Goto(p, "glm216", Call(fr[p], "a573"))
       \/ /\ Raise(p, fr[p])
          /\ UNCHANGED PurchaseHistory
    /\ UNCHANGED <<redis, MessageIds, chat_id_locks, telegram, BotUsers, state, panel>>

\* line 573: await bot.delete_message(chat_id=user_chat_id, message_id=last_msg_id)
a573(p) ==
    /\ pc[p] = "a573"
    /\ LET c == fr[p].chat
           f == [fr[p] EXCEPT !.last_msg_id = fr[p].val]
       IN IF Live(c, f.last_msg_id)
          THEN /\ telegram' = DeleteMessage(telegram, c, f.last_msg_id)
               /\ Goto(p, "a574", f)
          ELSE /\ Raise(p, f)
               /\ UNCHANGED telegram
    /\ UNCHANGED <<redis, MessageIds, chat_id_locks, dbvars>>

\* lines 574-575: the purchase text, then reset_last_message_id
a574(p) ==
    /\ pc[p] = "a574"
    /\ \/ /\ telegram' = SendMessage(telegram, fr[p].chat, Txt("purchase"))
          /\ Goto(p, "rst246", Call([fr[p] EXCEPT !.sent = @ + 1], "a576"))
       \/ /\ Raise(p, fr[p])
          /\ UNCHANGED telegram
    /\ UNCHANGED <<redis, MessageIds, chat_id_locks, dbvars>>

\* lines 576-581: the main menu, then store_message_id
a576(p) ==
    /\ pc[p] = "a576"
    /\ \/ /\ telegram' = SendMessage(telegram, fr[p].chat, Txt("menu"))
          /\ Goto(p, "smi198",
                  Call([fr[p] EXCEPT !.message_id = Len(telegram[fr[p].chat]) + 1,
                                     !.sent = @ + 1], "done"))
       \/ /\ Raise(p, fr[p])
          /\ UNCHANGED telegram
    /\ UNCHANGED <<redis, MessageIds, chat_id_locks, dbvars>>

ProvisionSteps(p) ==
    \/ a504(p) \/ a522(p) \/ a546(p) \/ a562(p)
    \/ a573(p) \/ a574(p) \/ a576(p)

\* lines 448-457 for the invoice of tariff t as it is first shown, with the
\* platform the identifier of the control names
Draft(t, platform) ==
    LET ctl == paid_control(create_invoice(t, 0, NoPrice, 0))
    IN [enc |-> "dict", tariff_id |-> ctl.tariff_id, users |-> ctl.total_users,
        volume |-> ctl.total_volume, amount |-> ctl.amount, purchase_id |-> 1,
        platform |-> platform, duration |-> ctl.duration]

InitProvision ==
    /\ pc = [p \in Procs |-> "idle"]
    /\ fr = [p \in Procs |-> InitFrame]
    /\ chat_id_locks = [c \in Chats |-> NoLock]
    /\ BotUsers = [c \in Chats |-> NoRow]
    /\ panel = <<>>
    /\ state = [c \in Chats |-> IF c = TheChat THEN "wait_for_photo" ELSE "none"]
    /\ MessageIds = [c \in Chats |-> IF c = TheChat THEN 1 ELSE NoMsg]
    /\ telegram = [c \in Chats |->
                      IF c = TheChat THEN <<[text |-> prompt(1), live |-> TRUE]>>
                      ELSE <<>>]
    /\ \E t \in PaidTariffs : \E platform \in {Catalog[t].Platform, "other"} :
          /\ PurchaseHistory =
                <<[ChatID |-> TheChat, TariffID |-> t, Amount |-> Draft(t, platform).amount,
                   Status |-> "pending", SubscriptionURL |-> "NULL"]>>
          /\ redis = [c \in Chats |->
                         [last_message_id |-> json_dumps(1),
                          purchase_data |-> IF c = TheChat THEN Draft(t, platform)
                                            ELSE NoData]]

NextProvision ==
    \/ \E p \in Procs : Cancel(p) \/ Approve(p)
    \/ \E p \in Procs : CancelSteps(p) \/ ApproveSteps(p) \/ ProvisionSteps(p)
    \/ \E p \in Procs : PointerSteps(p) \/ RenderSteps(p) \/ ResetSteps(p)
    \/ \E p \in Procs : Recycle(p)
    \/ UserDeletes(TheChat)

SpecProvision == InitProvision /\ [][NextProvision]_vars

(***************************************************************************)
(* handlers/callbacks/defualt.py:587-588: the administrator's reject       *)
(* control.                                                                *)
(***************************************************************************)
\* dispatch of 'reject_payment_<chat>': no earlier branch of the chain matches
StartReject(p, c) ==
    /\ Idle(p)
    /\ Goto(p, "x588", [InitFrame EXCEPT !.h = "reject", !.chat = c,
                                         !.seen = Finished])
    /\ UNCHANGED <<redis, MessageIds, chat_id_locks, telegram, dbvars>>

\* a reject branch that withdraws the draft of the chat
reject_deletes_draft(p) ==
    /\ pc[p] = "x588"
    /\ redis' = delete_shared_data(redis, fr[p].chat)
    /\ Goto(p, "done", fr[p])
    /\ UNCHANGED <<MessageIds, chat_id_locks, telegram, dbvars>>

\* line 588: pass
x588(p) ==
    /\ pc[p] = "x588"
    /\ Goto(p, "done", fr[p])
    /\ UNCHANGED <<redis, MessageIds, chat_id_locks, telegram, dbvars>>

Reject(p) == StartReject(p, TheChat)

NextReject ==
    \/ \E p \in Procs : Reject(p) \/ Approve(p)
    \/ \E p \in Procs : x588(p) \/ ApproveSteps(p) \/ ProvisionSteps(p)
    \/ \E p \in Procs : PointerSteps(p) \/ ResetSteps(p)
    \/ \E p \in Procs : Recycle(p)

SpecReject == InitProvision /\ [][NextReject]_vars

(***************************************************************************)
(* The Shared Cache of the core tree by itself                             *)
(* (core/database/redis_tools.py:59-161).  In SpecCache the variable redis *)
(* is the store as the server keeps it: a function from the text of a key  *)
(* to the JSON text stored under it.  A text is a sequence of characters;  *)
(* a key name counts as one character.                                     *)
(***************************************************************************)
CacheChats == {1, 11}

CacheKeys == {<<"a">>, <<"b">>}

CacheValues == {1, 2}

\* lines 79, 113, 144: redis_key = f"{chat_id}:{key}"
redis_key(chat_id, key) == digits(chat_id) \o <<":">> \o key

\* f"{chat_id}*"
loose_pattern(chat_id) == digits(chat_id) \o <<"*">>

\* line 148: f"{chat_id}:*"
key_pattern(chat_id) == digits(chat_id) \o <<":", "*">>

RECURSIVE glob(_, _)
\* KEYS pattern: the glob match of the server, '*' standing for any text
glob(text, pattern) ==
    IF pattern = <<>> THEN text = <<>>
    ELSE IF Head(pattern) = "*"
         THEN glob(text, Tail(pattern)) \/ (text # <<>> /\ glob(Tail(text), pattern))
         ELSE text # <<>> /\ Head(text) = Head(pattern) /\ glob(Tail(text), Tail(pattern))

StoredKeys == DOMAIN redis

\* a call of one of the three operations
StartCache(p) ==
    /\ Idle(p)
    /\ \E c \in CacheChats, key \in CacheKeys \cup {<<>>}, value \in CacheValues \cup {0},
          op \in {"sd81", "gd114", "dd142"} :
          /\ key = <<>> => op = "dd142"
          /\ value # 0 <=> op = "sd81"
          /\ Goto(p, op, [InitFrame EXCEPT !.h = op, !.chat = c, !.key = key,
                                           !.val = value, !.seen = Finished])
    /\ UNCHANGED <<redis, MessageIds, chat_id_locks, telegram, dbvars>>

\* lines 79-96: await redis.set / redis.setex(redis_key, ..., json.dumps(value))
sd81(p) ==
    /\ pc[p] = "sd81"
    /\ \/ /\ LET k == redis_key(fr[p].chat, fr[p].key)
             IN redis' = [rk \in StoredKeys \cup {k} |->
                             IF rk = k THEN json_dumps(fr[p].val) ELSE redis[rk]]
          /\ Goto(p, "done", fr[p])
       \/ /\ Goto(p, "raised", [fr[p] EXCEPT !.out = "RedisError"])
          /\ UNCHANGED redis
    /\ UNCHANGED <<MessageIds, chat_id_locks, telegram, dbvars>>

\* lines 113-127: value = await redis.get(redis_key); json.loads, or None
gd114(p) ==
    /\ pc[p] = "gd114"
    /\ LET k == redis_key(fr[p].chat, fr[p].key)
       IN \/ /\ k \in StoredKeys
             /\ Goto(p, "done", [fr[p] EXCEPT !.val = json_loads(redis[k]),
                                              !.out = "value"])
          \/ /\ k \notin StoredKeys
             /\ Goto(p, "done", [fr[p] EXCEPT !.out = "absent"])
          \/ Goto(p, "raised", [fr[p] EXCEPT !.out = "RedisError"])
    /\ UNCHANGED <<redis, MessageIds, chat_id_locks, telegram, dbvars>>

\* lines 142-148: if key: await redis.delete(redis_key);
\* else: keys = await redis.keys(f"{chat_id}:*")
dd142(p) ==
    /\ pc[p] = "dd142"
    /\ \/ /\ fr[p].key # <<>>
          /\ LET k == redis_key(fr[p].chat, fr[p].key)
             IN redis' = [rk \in StoredKeys \ {k} |-> redis[rk]]
          /\ Goto(p, "done", fr[p])
       \/ /\ fr[p].key = <<>>
          /\ Goto(p, "dd149",
                  [fr[p] EXCEPT !.keys = {rk \in StoredKeys :
                                             glob(rk, key_pattern(fr[p].chat))}])
          /\ UNCHANGED redis
       \/ /\ Goto(p, "raised", [fr[p] EXCEPT !.out = "RedisError"])
          /\ UNCHANGED redis
    /\ UNCHANGED <<MessageIds, chat_id_locks, telegram, dbvars>>

\* lines 149-151: for k in keys: await redis.delete(k)
dd149(p) ==
    /\ pc[p] = "dd149"
    /\ \/ /\ fr[p].keys = {}
          /\ Goto(p, "done", fr[p])
          /\ UNCHANGED redis
       \/ \E k \in fr[p].keys :
             /\ redis' = [rk \in StoredKeys \ {k} |-> redis[rk]]
             /\ Goto(p, "dd149", [fr[p] EXCEPT !.keys = @ \ {k}, !.sent = @ + 1])
       \/ /\ fr[p].keys # {}
          /\ Goto(p, "raised", [fr[p] EXCEPT !.out = "RedisError"])
          /\ UNCHANGED redis
    /\ UNCHANGED <<MessageIds, chat_id_locks, telegram, dbvars>>

InitCache ==
    /\ InitCommon
    /\ BotUsers = [c \in Chats |-> NoRow]
    /\ MessageIds = [c \in Chats |-> NoMsg]
    /\ telegram = [c \in Chats |-> <<>>]
    /\ redis = <<>>

NextCache ==
    \/ \E p \in Procs : StartCache(p)
    \/ \E p \in Procs : sd81(p) \/ gd114(p) \/ dd142(p) \/ dd149(p)
    \/ \E p \in Procs : Recycle(p)

SpecCache == InitCache /\ [][NextCache]_vars

(***************************************************************************)
(* 'paid_' identifiers a client sends without having been given them: the  *)
(* identifier of tariff 1 as emitted, with a field less, or with one       *)
(* field that is no number.                                                *)
(***************************************************************************)
\* the fields of paid_{tariff_id}_{total_users}_{total_volume}_{amount}_{platform}_{duration}
EmittedFields == split(paid_data(create_invoice(1, 0, NoPrice, 0)))

PaidIdentifiers ==
    {join(EmittedFields), join(SubSeq(EmittedFields, 1, 6))}
    \cup {join([EmittedFields EXCEPT ![i] = <<"x">>]) : i \in {2, 3, 4, 5, 7}}

\* wrong field count, or a numeric segment that is no number
Malformed(callback_data) ==
    LET fields == split(callback_data)
    IN \/ Len(fields) # 7
       \/ \E i \in {2, 3, 4, 5, 7} : ~IsInt(fields[i])

\* lines 425-434: an identifier starting with paid_ arrives
StartSentPaid(p, c) ==
    /\ Idle(p)
    /\ state[c] = "none"
    /\ \E callback_data \in PaidIdentifiers : dispatch_paid(p, c, callback_data)
    /\ UNCHANGED <<redis, MessageIds, chat_id_locks, telegram, dbvars>>

SentPaid(p) ==
    /\ UserQuiet(TheChat)
    /\ Len(PurchaseHistory) < MaxPurchases
    /\ Room(TheChat)
    /\ StartSentPaid(p, TheChat)

NextSent ==
    \/ \E p \in Procs : SentPaid(p)
    \/ \E p \in Procs : PaidSteps(p)
    \/ \E p \in Procs : PointerSteps(p) \/ RenderSteps(p)
    \/ \E p \in Procs : Recycle(p)
    \/ UserDeletes(TheChat)

SpecSent == InitApprove /\ [][NextSent]_vars

(***************************************************************************)
(* Navigation between the screens of the purchase flow                     *)
(* (handlers/callbacks/defualt.py:141-193): the 'sub_' branch shows the    *)
(* tariffs of a plan, the 'tariff_' branch the countries of a tariff.      *)
(***************************************************************************)
\* utils/bot_tools.py:452-466: the plan (Subscriptions row) of a tariff
Plan(tariff_id) == [sub_id |-> 1, subscription_type |-> "limited"]

\* utils/bot_tools.py:258: tariff_{tariff_id}_{sub_id}_{subscription_type}_{int(price)}
tariff_data(tariff_id) ==
    join(<<(<<"tariff">>), digits(tariff_id), digits(Plan(tariff_id).sub_id),
           (<<Plan(tariff_id).subscription_type>>),
           digits(int(DecOfColumn(Catalog[tariff_id].Price)))>>)

\* utils/bot_tools.py:580-583: the back control of the invoice,
\* tariff_{tariff_id}_{sub_id}_{subscription_type}_{int(price)}
back_data(invoice) ==
    join(<<(<<"tariff">>), digits(invoice.tariff), digits(Plan(invoice.tariff).sub_id),
           (<<Plan(invoice.tariff).subscription_type>>),
           digits(int(DecOfColumn(Catalog[invoice.tariff].Price)))>>)

\* utils/bot_tools.py:315-317: the back control of the countries, sub_{sub_id}_{subscription_type}
sub_data(tariff_id) ==
    join(<<(<<"sub">>), digits(Plan(tariff_id).sub_id),
           (<<Plan(tariff_id).subscription_type>>)>>)

\* utils/bot_tools.py:275-319: the countries of the plan, each with the
\* control purchase_{tariff_id}_{country_id}_{price}
display_countries(tariff_id, sub_id, subscription_type, price) ==
    [Txt("countries") EXCEPT !.tariff = tariff_id]

\* utils/bot_tools.py:222-272: the tariffs of the plan, each with its
\* control tariff_...
display_tariffs(sub_id, subscription_type) == Txt("tariffs")

Screens(c, kind) ==
    {m \in 1..Len(telegram[c]) : telegram[c][m].live /\ telegram[c][m].text.kind = kind}

\* defualt.py:141, 174: the branch is chosen by the prefix of the identifier
dispatch(p, c, callback_data, action) ==
    LET f == [InitFrame EXCEPT !.h = "nav", !.chat = c, !.seen = Finished,
                 !.action = action, !.callback_data = callback_data,
                 !.data = split(callback_data)]
    IN IF Head(callback_data) = "tariff" THEN Goto(p, "t178", f)
       ELSE Goto(p, "s145", [f EXCEPT !.catch = "s160"])

\* the back control of a live invoice is tapped
StartBack(p, c) ==
    /\ Idle(p)
    /\ state[c] = "none"
    /\ \E m \in Screens(c, "invoice") : dispatch(p, c, back_data(telegram[c][m].text), "back")
    /\ UNCHANGED <<redis, MessageIds, chat_id_locks, telegram, dbvars>>

\* the back control of a live list of countries is tapped
StartCountriesBack(p, c) ==
    /\ Idle(p)
    /\ state[c] = "none"
    /\ \E m \in Screens(c, "countries") :
          dispatch(p, c, sub_data(telegram[c][m].text.tariff), "sub")
    /\ UNCHANGED <<redis, MessageIds, chat_id_locks, telegram, dbvars>>

\* a tariff of a live list of tariffs is tapped
StartTariff(p, c) ==
    /\ Idle(p)
    /\ state[c] = "none"
    /\ \E m \in Screens(c, "tariffs") : \E t \in PaidTariffs :
          dispatch(p, c, tariff_data(t), "tariff")
    /\ UNCHANGED <<redis, MessageIds, chat_id_locks, telegram, dbvars>>

\* lines 178-193: the five fields, display_countries, edit_or_send_new; the
\* branch has no try
t178(p) ==
    /\ pc[p] = "t178"
    /\ LET fields == fr[p].data
       IN IF unpacks(fields, 5) /\ IsInt(fields[2]) /\ IsInt(fields[3]) /\ IsInt(fields[5])
          THEN \/ Goto(p, "glm216",
                       EnterRender(fr[p],
                                   display_countries(int_text(fields[2]), int_text(fields[3]),
                                                     word(fields[4]), int_text(fields[5])),
                                   "done"))
               \/ Raise(p, fr[p])
          ELSE Raise(p, fr[p])
    /\ UNCHANGED <<redis, MessageIds, chat_id_locks, telegram, dbvars>>

\* lines 145-153: sub_id, display_tariffs, edit_or_send_new, inside the try
s145(p) ==
    /\ pc[p] = "s145"
    /\ LET fields == fr[p].data
       IN IF Len(fields) >= 3 /\ IsInt(fields[2])
          THEN \/ Goto(p, "glm216",
                       EnterRender(fr[p], display_tariffs(int_text(fields[2]),
                                                          word(fields[3])), "done"))
               \/ Raise(p, fr[p])
          ELSE Raise(p, fr[p])
    /\ UNCHANGED <<redis, MessageIds, chat_id_locks, telegram, dbvars>>

\* lines 158-172: except ValueError, except Exception: the alert with the error text
s160(p) ==
    /\ pc[p] = "s160"
    /\ Goto(p, "done", [fr[p] EXCEPT !.out = "error", !.alert = "error"])
    /\ UNCHANGED <<redis, MessageIds, chat_id_locks, telegram, dbvars>>

NavSteps(p) == t178(p) \/ s145(p) \/ s160(p)

Back(p) == Quiet /\ Room(TheChat) /\ StartBack(p, TheChat)

CountriesBack(p) == Quiet /\ Room(TheChat) /\ StartCountriesBack(p, TheChat)

TariffTap(p) == Quiet /\ Room(TheChat) /\ StartTariff(p, TheChat)

NextNav ==
    \/ \E p \in Procs : OpenInvoice(p) \/ Back(p) \/ CountriesBack(p) \/ TariffTap(p)
    \/ \E p \in Procs : ci467(p) \/ NavSteps(p)
    \/ \E p \in Procs : PointerSteps(p) \/ RenderSteps(p)
    \/ \E p \in Procs : Recycle(p)
    \/ UserDeletes(TheChat)

SpecNav == InitInvoice /\ [][NextNav]_vars

(***************************************************************************)
(* DBUtil's three pointer operations (core/database/db_tools.py:190-251)   *)
(* called on their own: stores, then one reset, with lookups at any time.  *)
(***************************************************************************)
Resets(c) == {q \in Procs : fr[q].h = "reset" /\ fr[q].chat = c}

Stores(c) == {q \in Procs : fr[q].h = "store" /\ fr[q].chat = c}

\* reset_last_message_id(c) has returned
ResetDone(c) == \E q \in Resets(c) : pc[q] = "done"

\* get_last_message_id(c) is called
StartGet(p, c) ==
    /\ Idle(p)
    /\ Goto(p, "glm216", Call([InitFrame EXCEPT !.h = "get", !.chat = c,
                                                !.pre = ResetDone(c)], "done"))
    /\ UNCHANGED <<redis, MessageIds, chat_id_locks, telegram, dbvars>>

\* store_message_id(c, message_id) is called, before the reset
StartStore(p, c) ==
    /\ Idle(p)
    /\ Resets(c) = {}
    /\ \E message_id \in 1..MaxMsgs :
          Goto(p, "smi198", Call([InitFrame EXCEPT !.h = "store", !.chat = c,
                                                   !.message_id = message_id], "done"))
    /\ UNCHANGED <<redis, MessageIds, chat_id_locks, telegram, dbvars>>

\* reset_last_message_id(c) is called, once and when no store is running
StartReset(p, c) ==
    /\ Idle(p)
    /\ Resets(c) = {}
    /\ \A q \in Stores(c) : Done(q)
    /\ Goto(p, "rst246", Call([InitFrame EXCEPT !.h = "reset", !.chat = c], "done"))
    /\ UNCHANGED <<redis, MessageIds, chat_id_locks, telegram, dbvars>>

\* a lookup or a store that has returned leaves room for the next call
RecycleCall(p) == fr[p].h \in {"get", "store"} /\ Recycle(p)

NextPointer ==
    \/ \E p \in Procs : StartGet(p, TheChat) \/ StartStore(p, TheChat)
                            \/ StartReset(p, TheChat)
    \/ \E p \in Procs : PointerSteps(p) \/ ResetSteps(p)
    \/ \E p \in Procs : RecycleCall(p)

SpecPointer == InitRender /\ [][NextPointer]_vars

(***************************************************************************)
(* The receipt of a pending purchase whose draft can be read: photos and   *)
(* the user's cancel, no administrator answers.  The event loop resumes a  *)
(* coroutine whose awaited call has completed; no timer is started by      *)
(* any handler (config.PAYMENT_DEADLINE is read nowhere).                  *)
(***************************************************************************)
\* a photo of the user arrives
ReceiptPhoto(p) == Room(TheChat) /\ Photo(p)

NextReceipt ==
    \/ \E p \in Procs : Cancel(p) \/ ReceiptPhoto(p)
    \/ \E p \in Procs : CancelSteps(p) \/ PhotoSteps(p)
    \/ \E p \in Procs : PointerSteps(p) \/ RenderSteps(p)
    \/ \E p \in Procs : Recycle(p)
    \/ UserDeletes(TheChat)

\* the pending purchase of InitProvision, the pointer cached or not
InitReceipt ==
    /\ pc = [p \in Procs |-> "idle"]
    /\ fr = [p \in Procs |-> InitFrame]
    /\ chat_id_locks = [c \in Chats |-> NoLock]
    /\ BotUsers = [c \in Chats |-> NoRow]
    /\ panel = <<>>
    /\ state = [c \in Chats |-> IF c = TheChat THEN "wait_for_photo" ELSE "none"]
    /\ MessageIds = [c \in Chats |-> IF c = TheChat THEN 1 ELSE NoMsg]
    /\ telegram = [c \in Chats |->
                      IF c = TheChat THEN <<[text |-> prompt(1), live |-> TRUE]>>
                      ELSE <<>>]
    /\ \E t \in PaidTariffs, cached \in {NoValue, json_dumps(1)} :
          /\ PurchaseHistory =
                <<[ChatID |-> TheChat, TariffID |-> t,
                   Amount |-> Draft(t, Catalog[t].Platform).amount,
                   Status |-> "pending", SubscriptionURL |-> "NULL"]>>
          /\ redis = [c \in Chats |->
                         [last_message_id |-> cached,
                          purchase_data |-> IF c = TheChat
                                            THEN Draft(t, Catalog[t].Platform)
                                            ELSE NoData]]

SpecReceipt == InitReceipt /\ [][NextReceipt]_vars

(***************************************************************************)
(* handlers/default_handlers.py:27-71: cancel_state, the handler of the    *)
(* text of the cancel button, registered for every conversation state.     *)
(* Nothing in it is inside a try.                                          *)
(***************************************************************************)
StartCancelState(p, c) ==
    /\ Idle(p)
    /\ Goto(p, "k55", [InitFrame EXCEPT !.h = "cancel_state", !.chat = c,
                                        !.seen = Finished])
    /\ UNCHANGED <<redis, MessageIds, chat_id_locks, telegram, dbvars>>

\* lines 55-62: await message.delete(), then the notification is rendered
k55(p) ==
    /\ pc[p] = "k55"
    /\ \/ Goto(p, "glm216", EnterRender(fr[p], Txt("cancelled"), "k65"))
       \/ Raise(p, fr[p])
    /\ UNCHANGED <<redis, MessageIds, chat_id_locks, telegram, dbvars>>

\* lines 65-71: await state.finish(), then the main menu is rendered
k65(p) ==
    /\ pc[p] = "k65"
    /\ state' = finish(state, fr[p].chat)
    /\ Goto(p, "glm216",
            EnterRender([fr[p] EXCEPT !.left = state[fr[p].chat] = "wait_for_photo"],
                        Txt("menu"), "done"))
    /\ UNCHANGED <<redis, MessageIds, chat_id_locks, telegram, BotUsers,
                   PurchaseHistory, panel>>

CancelStateSteps(p) == k55(p) \/ k65(p)

\* the user sends the text of the cancel button
CancelState(p) == UserQuiet(TheChat) /\ Room(TheChat) /\ StartCancelState(p, TheChat)

NextExit ==
    \/ \E p \in Procs : Cancel(p) \/ ReceiptPhoto(p) \/ CancelState(p)
    \/ \E p \in Procs : CancelSteps(p) \/ PhotoSteps(p) \/ CancelStateSteps(p)
    \/ \E p \in Procs : PointerSteps(p) \/ RenderSteps(p)
    \/ \E p \in Procs : Recycle(p)
    \/ UserDeletes(TheChat)

SpecExit == InitReceipt /\ [][NextExit]_vars

(***************************************************************************)
(* The review of a receipt with the chats of the administrators in the     *)
(* picture: the forwarding loop of the receipt handler                     *)
(* (handlers/default_handlers.py:177-188) and the notice loop of the       *)
(* approval (handlers/callbacks/defualt.py:503-510) act on the messages    *)
(* and the pointer of each chat of config.ADMINS.  While a call to DBUtil  *)
(* runs for an administrator the field chat of the frame names that chat;  *)
(* user_chat_id keeps the chat of the user.  Updates are taken up one      *)
(* after another.                                                          *)
(***************************************************************************)
\* the chat id of the i-th entry of config.ADMINS
Admin(i) == 10 + i

AdminChats == {Admin(i) : i \in 1..NumAdmins}

\* users with a receipt to send
Buyers == {1, 2}

\* lines 152-175: the caption and the controls 'confirm_payment_<chat_id>' and
\* 'reject_payment_<chat_id>'; purchase_id is the purchase whose amount the
\* caption shows
review(chat_id, purchase_id) ==
    [Txt("review") EXCEPT !.carried = chat_id, !.purchase_id = purchase_id]

ReviewMessages(admin) ==
    {m \in 1..Len(telegram[admin]) :
        telegram[admin][m].live /\ telegram[admin][m].text.kind = "review"}

Serial == \A q \in Procs : pc[q] = "idle" \/ Done(q)

\* every user of the set has tapped 'paid' once: record c and a readable
\* draft for chat c, the prompt shown, its pointer stored and not yet cached
InitReviewOf(users) ==
    LET all == users \cup AdminChats
    IN /\ pc = [p \in Procs |-> "idle"]
       /\ fr = [p \in Procs |-> InitFrame]
       /\ chat_id_locks = [c \in all |-> NoLock]
       /\ BotUsers = [c \in all |-> NoRow]
       /\ panel = <<>>
       /\ state = [c \in all |-> IF c \in users THEN "wait_for_photo" ELSE "none"]
       /\ MessageIds = [c \in all |-> IF c \in users THEN 1 ELSE NoMsg]
       /\ telegram = [c \in all |->
                         IF c \in users THEN <<[text |-> prompt(c), live |-> TRUE]>>
                         ELSE <<>>]
       /\ \E t \in PaidTariffs :
             /\ PurchaseHistory =
                   [c \in 1..Cardinality(users) |->
                       [ChatID |-> c, TariffID |-> t,
                        Amount |-> Draft(t, Catalog[t].Platform).amount,
                        Status |-> "pending", SubscriptionURL |-> "NULL"]]
             /\ redis = [c \in all |->
                            IF c \in users
                            THEN [last_message_id |-> NoValue,
                                  purchase_data |->
                                     [Draft(t, Catalog[t].Platform) EXCEPT !.purchase_id = c]]
                            ELSE [last_message_id |-> NoValue, purchase_data |-> NoData]]

\* a photo of a user arrives
ReviewPhoto(p) ==
    /\ Serial
    /\ \E c \in Buyers \cap DOMAIN state : Len(telegram[c]) < MaxMsgs /\ StartPhoto(p, c)

\* lines 177-185: send_photo to the next administrator, then store_message_id
\* for the administrator's chat
h178(p) ==
    /\ pc[p] = "h179"
    /\ LET admin == Admin(fr[p].admins + 1)
           f == [fr[p] EXCEPT !.user_chat_id = fr[p].chat]
       IN \/ /\ telegram' = SendMessage(telegram, admin,
                                        review(f.user_chat_id, f.purchase_data.purchase_id))
             /\ Goto(p, "smi198",
                     Call([f EXCEPT !.chat = admin,
                                    !.message_id = Len(telegram[admin]) + 1], "h186"))
          \/ /\ Raise(p, f)
             /\ UNCHANGED telegram
    /\ UNCHANGED <<redis, MessageIds, chat_id_locks, dbvars>>

\* lines 186-188: the pointer of the administrator is stored; the next one
h186(p) ==
    /\ pc[p] = "h186"
    /\ LET f == [fr[p] EXCEPT !.admins = @ + 1, !.chat = fr[p].user_chat_id]
       IN IF f.admins = NumAdmins
          THEN Goto(p, "done", [f EXCEPT !.out = "forwarded"])
          ELSE Goto(p, "h179", f)
    /\ UNCHANGED <<redis, MessageIds, chat_id_locks, telegram, dbvars>>

\* lines 476-480: an administrator taps 'confirm_payment_<chat>' under a review
\* message; user_chat_id = callback_data.split("_")[2]
StartApproveReview(p, admin, m) ==
    /\ Idle(p)
    /\ LET text == telegram[admin][m].text
       IN Goto(p, "a479", [InitFrame EXCEPT !.h = "approve", !.chat = text.carried,
                                            !.user_chat_id = text.carried,
                                            !.review = text.purchase_id,
                                            !.catch = "a582", !.seen = Finished])
    /\ UNCHANGED <<redis, MessageIds, chat_id_locks, telegram, dbvars>>

ApproveReview(p) ==
    /\ Serial
    /\ \E admin \in AdminChats : \E m \in ReviewMessages(admin) :
          StartApproveReview(p, admin, m)

\* lines 503-504: for admin in config.ADMINS: get_last_message_id(chat_id=admin)
a503(p) ==
    /\ pc[p] = "a504"
    /\ Goto(p, "glm216", Call([fr[p] EXCEPT !.chat = Admin(fr[p].admins + 1)], "a505"))
    /\ UNCHANGED <<redis, MessageIds, chat_id_locks, telegram, dbvars>>

\* line 505: await bot.delete_message(chat_id=admin, message_id=msg_id)
a505(p) ==
    /\ pc[p] = "a505"
    /\ LET admin == fr[p].chat
           msg_id == fr[p].val
       IN IF Live(admin, msg_id)
          THEN /\ telegram' = DeleteMessage(telegram, admin, msg_id)
               /\ Goto(p, "a509", fr[p])
          ELSE /\ Raise(p, fr[p])
               /\ UNCHANGED telegram
    /\ UNCHANGED <<redis, MessageIds, chat_id_locks, dbvars>>

\* lines 506-510: the notice, then reset_last_message_id(chat_id=admin)
a509(p) ==
    /\ pc[p] = "a509"
    /\ \/ /\ telegram' = SendMessage(telegram, fr[p].chat, Txt("approved"))
          /\ Goto(p, "rst246", Call(fr[p], "a510"))
       \/ /\ Raise(p, fr[p])
          /\ UNCHANGED telegram
    /\ UNCHANGED <<redis, MessageIds, chat_id_locks, dbvars>>

\* the next administrator, or on to line 511
a510(p) ==
    /\ pc[p] = "a510"
    /\ LET f == [fr[p] EXCEPT !.admins = @ + 1, !.chat = fr[p].user_chat_id]
       IN Goto(p, IF f.admins = NumAdmins THEN "a522" ELSE "a504", f)
    /\ UNCHANGED <<redis, MessageIds, chat_id_locks, telegram, dbvars>>

ReviewSteps(p) ==
    \/ h136(p) \/ h140(p) \/ h150(p) \/ h156(p) \/ h178(p) \/ h186(p) \/ h189(p)
    \/ ApproveSteps(p)
    \/ a503(p) \/ a505(p) \/ a509(p) \/ a510(p)
    \/ a522(p) \/ a546(p) \/ a562(p) \/ a573(p) \/ a574(p) \/ a576(p)
    \/ PointerSteps(p) \/ RenderSteps(p) \/ ResetSteps(p)

\* two users with a receipt each
NextReview ==
    \/ \E p \in Procs : ReviewPhoto(p) \/ ApproveReview(p)
    \/ \E p \in Procs : ReviewSteps(p)
    \/ \E p \in Procs : Recycle(p)

SpecReview == InitReviewOf(Buyers) /\ [][NextReview]_vars

\* the user orders again after the receipt was sent
AnotherInvoice(p) == Serial /\ StartOpenInvoice(p, TheChat)

AnotherPaid(p) ==
    /\ Serial
    /\ Len(PurchaseHistory) < MaxPurchases
    /\ Room(TheChat)
    /\ StartPaid(p, TheChat)

NextReorder ==
    \/ \E p \in Procs : ReviewPhoto(p) \/ ApproveReview(p)
    \/ \E p \in Procs : AnotherInvoice(p) \/ AnotherPaid(p)
    \/ \E p \in Procs : ReviewSteps(p) \/ ci467(p) \/ PaidSteps(p)
    \/ \E p \in Procs : Recycle(p)

SpecReorder == InitReviewOf({TheChat}) /\ [][NextReorder]_vars

FairReceipt ==
    /\ SpecReceipt
    /\ WF_vars(\E p \in Procs : CancelSteps(p) \/ PhotoSteps(p)
                                  \/ PointerSteps(p) \/ RenderSteps(p))

(***************************************************************************)
(* Claims about the Message Slot Manager.                                  *)
(***************************************************************************)
Renders == {p \in Procs : fr[p].h = "render"}

Concurrent(p, q) == p # q /\ p \notin fr[q].seen /\ q \notin fr[p].seen

InLookup(p) == pc[p] \in {"glm216", "glm223", "glm227"} /\ Head(fr[p].ret) = "r75"

SentFresh(p) == pc[p] = "done" /\ fr[p].last_msg_id = NoMsg /\ fr[p].sent = 1

\* C1: two concurrent render calls for one chat that has no pointer never both
\* observe "no active message" and both send a fresh message: one new message
\* is sent and the pointer names it.
C1_OneFreshMessage ==
    \A p, q \in Renders :
        (Concurrent(p, q) /\ fr[p].chat = fr[q].chat /\ SentFresh(p))
            => ~SentFresh(q)

\* C2: the pointer lookup of a render call is made while the call holds the
\* chat's lock, so the pointer it read is unchanged when it sends or edits.
C2_LookupUnderLock ==
    \A p \in Renders :
        /\ InLookup(p) => chat_id_locks[fr[p].chat].holder = p
        /\ pc[p] = "r78" => /\ MessageIds[fr[p].chat] = NoMsg
                            /\ get_cached_message_id(redis, fr[p].chat) = NoMsg

Holds(p) == \E c \in Chats : chat_id_locks[c].holder = p

Waits(p) == \E c \in Chats : \E i \in 1..Len(chat_id_locks[c].waiters) :
                chat_id_locks[c].waiters[i] = p

\* C3: a render call that has ended, normally or by an exception of the send,
\* edit or pointer store, no longer holds the chat's lock, and every render
\* call waiting for the lock eventually acquires it.
C3_LockReleased ==
    /\ [](\A p \in Procs : Done(p) => ~Holds(p) /\ ~Waits(p))
    /\ \A p \in Procs : (pc[p] = "wait_lock") ~> (pc[p] # "wait_lock")

\* C3 witness: a render call ended by an exception inside the block while
\* another call for the same chat, which had been waiting, is in the block
C3_Witness ==
    \E p, q \in Renders :
        /\ pc[p] = "raised" /\ fr[p].chat = fr[q].chat
        /\ Holds(q) /\ q \notin fr[p].seen /\ p \notin fr[q].seen
        /\ pc[q] \in {"r78", "r92"}


(***************************************************************************)
(* Claims about the purchase handlers.                                     *)
(***************************************************************************)
Approvals(c) == {p \in Procs : fr[p].h = "approve" /\ fr[p].chat = c}

\* the approval read the draft and went on to delete it (lines 481-491)
Consumed(p) ==
    /\ fr[p].h = "approve"
    /\ pc[p] \in {"a491", "a504", "done"}
    /\ ~Falsy(fr[p].purchase_data)

GatewayCalls(c, via) ==
    Cardinality({i \in 1..Len(panel) : panel[i].chat = c /\ panel[i].via = via})

Completed(c) ==
    {i \in 1..Len(PurchaseHistory) :
        PurchaseHistory[i].ChatID = c /\ PurchaseHistory[i].Status = "completed"}

\* C4: when the approval handler runs twice in succession for a chat after
\* one 'paid' confirmation, the gateway is called exactly once, exactly one
\* purchase record is completed, and the second run reports 'data not
\* found'.
C4_ApprovedOnce ==
    \A c \in Chats : \A p, q \in Approvals(c) :
        (/\ Done(p) /\ Done(q) /\ p \in fr[q].seen
         /\ Consumed(p)) =>
            /\ GatewayCalls(c, "approve") = 1
            /\ Cardinality(Completed(c)) = 1
            /\ fr[q].out = "not_found"

\* C5: in every interleaving of two approval handlers for a chat, the draft
\* is consumed by at most one of them and the gateway is called at most once
\* for it.
C5_ConsumedOnce ==
    \A c \in Chats :
        /\ \A p, q \in Approvals(c) :
              (/\ Consumed(p) /\ Consumed(q)
               /\ fr[p].purchase_data.purchase_id = fr[q].purchase_data.purchase_id)
                 => p = q
        /\ GatewayCalls(c, "approve") <= 1

FreeTaps(c) == {p \in Procs : fr[p].h = "free" /\ fr[p].chat = c}

\* what the bot stores: cache, tables, chats and the panel's accounts
stored == <<redis, MessageIds, telegram, BotUsers, PurchaseHistory, state, panel>>

C7_OneFreeProvision == \A c \in Chats : GatewayCalls(c, "free") <= 1

(***************************************************************************)
(* Claims about the Price Engine and the invoice controls.                 *)
(***************************************************************************)
\* base + base * pct / 100 * u + per_gig * v, in Scale-ths of the currency
PriceOf(t, u, v) ==
    LET row == Catalog[t]
    IN row.Price * (Scale \div 100)
         + row.Price * row.AddedPricePerUser * u * (Scale \div 10000)
         + row.PricePerGig * v * Scale

Returned == {p \in Procs : pc[p] = "done" /\ fr[p].h = "create_invoice"}

\* C8: the price create_invoice computes is
\* base + base * pct / 100 * u + per_gig * v; for base 100000, 10 percent,
\* u = 2, 500 per GB and v = 3 the price shown is 121500.
C8_PriceFormula ==
    \A p \in Returned :
        LET inv == fr[p].new_text
        IN /\ inv.carried = PriceOf(fr[p].tariff_id, fr[p].u, fr[p].v)
           /\ inv.shown = int(PriceOf(fr[p].tariff_id, fr[p].u, fr[p].v))
           /\ (fr[p].tariff_id = 1 /\ fr[p].u = 2 /\ fr[p].v = 3) => inv.shown = 121500

C8_Witness ==
    \E p \in Returned :
        /\ fr[p].tariff_id = 1 /\ fr[p].u = 2 /\ fr[p].v = 3
        /\ fr[p].new_text.shown = 121500

\* every invoice a handler has built or a chat holds
Invoices ==
    {fr[p].new_text : p \in {q \in Procs : fr[q].new_text.kind = "invoice"}}
      \cup UNION {{telegram[c][m].text :
                      m \in {n \in 1..Len(telegram[c]) :
                                telegram[c][n].text.kind = "invoice"}} : c \in Chats}

\* C9: over any sequence of addUser, deductUser, addVolume and deductVolume
\* taps the price an invoice shows is determined by its tariff and its
\* current (u, v) alone, whatever price the tapped identifier carried.
C9_PriceOfSelection ==
    \A inv \in Invoices : inv.shown = int(PriceOf(inv.tariff, inv.u, inv.v))

C9_Witness ==
    \E p \in Procs :
        /\ pc[p] = "done" /\ fr[p].h = "tap"
        /\ fr[p].current_price = ForgedPrice
        /\ fr[p].new_text.kind = "invoice"
        /\ fr[p].new_text.u > 0 /\ fr[p].new_text.v > 0
        /\ \E m \in InvoiceMessages(fr[p].chat) :
              telegram[fr[p].chat][m].text = fr[p].new_text

UserTaps(action) == {p \in Procs : fr[p].h = "tap" /\ fr[p].action = action}

\* the tap answered without building or rendering an invoice
Unchanged(p, label) ==
    /\ pc[p] \in {label, "done"}
    /\ fr[p].new_text.kind = "none"
    /\ fr[p].u = fr[p].u0 /\ fr[p].v = fr[p].v0
    /\ fr[p].sent = 0

\* C10: from a fresh invoice on, every invoice has 0 <= additional_users and
\* base_users + additional_users <= the configured maximum; an addUser tap
\* at the maximum changes nothing and alerts with the limit; a deductUser
\* tap at 0 changes nothing.
C10_UsersWithinLimit ==
    /\ \A inv \in Invoices :
          0 <= inv.u /\ inv.users + inv.u <= NUMBER_OF_ALLOWED_USERS
    /\ \A p \in UserTaps("addUser") :
          fr[p].u0 + fr[p].default_user = NUMBER_OF_ALLOWED_USERS =>
             /\ Unchanged(p, "t354")
             /\ pc[p] = "done" => fr[p].alert = "limit"
    /\ \A p \in UserTaps("deductUser") :
          fr[p].u0 = 0 => Unchanged(p, "t366") /\ fr[p].alert # "limit"

C10_Witness ==
    \E p \in UserTaps("addUser") :
        /\ pc[p] = "done" /\ fr[p].alert = "limit"
        /\ fr[p].u0 > 0
        /\ fr[p].u0 + fr[p].default_user = NUMBER_OF_ALLOWED_USERS

\* C11: from additional volume 0 on, the additional volume of every invoice
\* is a non-negative multiple of the step; an addVolume tap adds one step, a
\* deductVolume tap removes one step, and a deductVolume tap at 0 changes
\* neither the volume nor the invoice shown.
C11_VolumeInSteps ==
    /\ \A inv \in Invoices : inv.v >= 0 /\ inv.v % VolumeStep = 0
    /\ \A p \in UserTaps("addVolume") : fr[p].v = fr[p].v0 + VolumeStep
    /\ \A p \in UserTaps("deductVolume") :
          IF fr[p].v0 = 0
          THEN Unchanged(p, "t407")
          ELSE fr[p].v = fr[p].v0 - VolumeStep
    /\ \A p \in UserTaps("addVolume") \cup UserTaps("deductVolume") :
          fr[p].new_text.kind = "invoice" => fr[p].new_text.v = fr[p].v

C11_Witness ==
    /\ \E p \in UserTaps("deductVolume") :
          /\ pc[p] = "done" /\ fr[p].v0 = 2 * VolumeStep /\ fr[p].v = VolumeStep
          /\ \E m \in InvoiceMessages(fr[p].chat) :
                telegram[fr[p].chat][m].text = fr[p].new_text

(***************************************************************************)
(* Claims about the order life cycle.                                      *)
(***************************************************************************)
Cancels == {p \in Procs : fr[p].h = "cancel"}

Photos == {p \in Procs : fr[p].h = "photo"}

Pending(c) ==
    {i \in 1..Len(PurchaseHistory) :
        PurchaseHistory[i].ChatID = c /\ PurchaseHistory[i].Status = "pending"}

\* C13: while a chat awaits a receipt after 'paid', exactly one pending
\* Purchase Record has been created for it, and it exists before the wait
\* mode is set and before a photo is accepted, also when the 'paid' control
\* is tapped twice and the two handlers interleave.
C13_OneRecordPerEntry ==
    /\ \A c \in Chats :
          state[c] = "wait_for_photo" => Cardinality(Pending(c)) = 1
    /\ \A p \in Photos : Pending(fr[p].chat) # {}

Records == 1..Len(PurchaseHistory)

\* the accounts the step adds on the panels
Provisioned == {panel'[j].purchase_id : j \in (Len(panel) + 1)..Len(panel')}

FailedWriters == {p \in Procs : pc[p] = "a562" /\ fr[p].failed}

LiveMessages(c) == {m \in 1..Len(telegram[c]) : telegram[c][m].live}

\* the renders that have sent a new message while the pointer named one
Replacing ==
    {p \in Procs : fr[p].h = "render" /\ fr[p].sent > 0 /\ fr[p].last_msg_id # NoMsg}

\* C17: when render is called for one chat one call after another, at most
\* one message sent by render is present once a call has returned: a render
\* that has sent a new message has left the message the pointer named before
\* no longer present.
C17_OneSlotMessage ==
    /\ \A p \in Replacing : ~Live(fr[p].chat, fr[p].last_msg_id)
    /\ \A c \in Chats :
          (\A q \in Procs : pc[q] = "idle" \/ Done(q)) =>
              Cardinality(LiveMessages(c)) <= 1

(***************************************************************************)
(* Claims about the Shared Cache.                                          *)
(***************************************************************************)
\* the approval handlers whose read of the draft met an unavailable backend
FailedReads == {p \in Procs : fr[p].h = "approve" /\ fr[p].cache = "unavailable"}

\* C19: the approval handler reports 'data not found' only when its read
\* found no draft stored; a read that failed because the backend is
\* unavailable ends the handler in its except clause: no 'data not found'
\* alert, no deletion of the draft (line 491 is not reached) and no gateway
\* call come from it.
C19_ErrorIsNotAbsent ==
    /\ \A p \in Procs :
          fr[p].h = "approve" /\ fr[p].alert = "not_found" =>
              fr[p].cache = "read" /\ Falsy(fr[p].purchase_data)
    /\ \A p \in FailedReads :
          /\ fr[p].alert # "not_found"
          /\ pc[p] \in {"a582", "done"}
          /\ \A j \in 1..Len(panel) : panel[j].by # p

C19_Witness ==
    \E p \in FailedReads :
        /\ pc[p] = "done" /\ fr[p].out = "error"
        /\ ~Falsy(get_shared_data(redis, fr[p].chat))

\* the 'paid' handlers that have stored their draft (line 458)
Stored == {p \in Procs : fr[p].h = "paid" /\ pc[p] = "p472"}

\* C20: what get_shared_data(c, k) returns after set_shared_data(c, k, v) is
\* a structured value equal to v, whose fields can be read by name, and not
\* a text.
C20_RoundTrip ==
    \A p \in Stored :
        LET x == get_shared_data(redis, fr[p].chat)
        IN ~Falsy(x) => x = fr[p].purchase_data /\ Subscriptable(x)

RECURSIVE OwnerFrom(_, _)
OwnerFrom(text, n) ==
    IF text = <<>> \/ Head(text) = ":" THEN n
    ELSE OwnerFrom(Tail(text),
                   10 * n + (CHOOSE d \in 0..9 : DigitChars[d + 1] = Head(text)))

\* the chat id a stored key begins with, up to its first colon
Owner(rk) == OwnerFrom(rk, 0)

RECURSIVE NameOf(_)
\* the key name of a stored key: what follows its first colon
NameOf(rk) == IF Head(rk) = ":" THEN Tail(rk) ELSE NameOf(Tail(rk))

\* the stored keys whose entry the step adds, removes or overwrites
Touched ==
    {rk \in DOMAIN redis \cup DOMAIN redis' :
        ~(rk \in DOMAIN redis /\ rk \in DOMAIN redis' /\ redis'[rk] = redis[rk])}

EntriesOf(c) == {rk \in DOMAIN redis : Owner(rk) = c}

\* C18: an operation of the Shared Cache for chat c touches no entry of
\* another chat: set, get and delete with a key touch and read only the entry
\* <c>:<key>, and delete without a key collects exactly the entries of c and
\* removes only those.
C18_OwnEntriesOnly ==
    [][\A p \in Procs :
          pc[p] \in {"sd81", "gd114", "dd142", "dd149"} /\ <<pc[p], fr[p]>>' # <<pc[p], fr[p]>> =>
              LET c == fr[p].chat
                  mine == {rk \in EntriesOf(c) : NameOf(rk) = fr[p].key}
              IN /\ \A rk \in Touched : Owner(rk) = c
                 /\ fr[p].key # <<>> =>
                       \A rk \in Touched : NameOf(rk) = fr[p].key
                 /\ pc[p] = "gd114" /\ pc'[p] = "done" =>
                       IF mine = {} THEN fr'[p].out = "absent"
                       ELSE \E rk \in mine : fr'[p].val = json_loads(redis[rk])
                 /\ pc[p] = "dd142" /\ pc'[p] = "dd149" =>
                       fr'[p].keys = EntriesOf(c)
                 /\ pc[p] = "dd149" => fr'[p].keys \subseteq fr[p].keys]_vars

C18_Witness ==
    \E p \in Procs :
        /\ fr[p].h = "dd142" /\ fr[p].key = <<>> /\ pc[p] = "done"
        /\ fr[p].chat = 1 /\ fr[p].sent = 2
        /\ EntriesOf(1) = {} /\ Cardinality(EntriesOf(11)) = 2

(***************************************************************************)
(* Claims about the control identifiers.                                   *)
(***************************************************************************)
Decoded == {p \in Procs : fr[p].h = "controls" /\ pc[p] = "done"}

\* C21: whichever control of an invoice is tapped, its branch reads seven,
\* six or seven fields without error and gets back the tariff id, the
\* additional users, the additional volume and the country id that
\* create_invoice was called with (the totals of users and volume for 'paid').
C21_ControlsDecode ==
    \A p \in Decoded :
       LET a == fr[p].args
           row == Catalog[fr[p].tariff_id]
       IN /\ a # ValueError
          /\ a.tariff_id = fr[p].tariff_id
          /\ fr[p].action \in {"addUser", "deductUser", "addVolume", "deductVolume"} =>
                /\ a.action = fr[p].action
                /\ a.current_additional_users = fr[p].u
                /\ a.additional_volume = fr[p].v
                /\ a.country_id = fr[p].country_id
          /\ fr[p].action \in {"addUser", "deductUser"} =>
                a.default_user = row.NumberOfUsers
          /\ fr[p].action = "paid" =>
                /\ a.users = row.NumberOfUsers + fr[p].u
                /\ a.volume = fr[p].v + row.Volume
                /\ a.platform = row.Platform
                /\ a.duration = row.Duration

\* a user control of two extra users, ten extra gigabytes and country 12 was read
C21_Witness ==
    \E p \in Decoded :
       /\ fr[p].action = "deductUser"
       /\ fr[p].u = 2 /\ fr[p].v = 2 * VolumeStep /\ fr[p].country_id = 12
       /\ fr[p].args.additional_volume = 2 * VolumeStep

(***************************************************************************)
(* Claims about the receipt handler.                                       *)
(***************************************************************************)
\* C22: when the receipt handler has ended for a photo, the chat has left the
\* wait-for-photo mode, so that the next photo is not handed to it (only a
\* later 'paid' enters the mode again, and none starts before the handler's
\* coroutine is gone).
C22_ModeClearedByPhoto ==
    \A p \in Photos : pc[p] = "done" => state[fr[p].chat] # "wait_for_photo"

Forwarded == \E p \in Photos : fr[p].admins = NumAdmins

Unhandled ==
    {p \in Procs : /\ fr[p].h = "approve"
                   /\ Subscriptable(fr[p].purchase_data)
                   /\ fr[p].purchase_data.platform \notin {"xui", "hiddify"}}

Pointer(r, ids, c) ==
    IF get_cached_message_id(r, c) # NoMsg THEN get_cached_message_id(r, c) ELSE ids[c]

\* C26: when a render call returns normally the pointer of its chat names a
\* message holding the rendered text: without a pointer one message was sent
\* and its id stored; with a pointer and a successful edit nothing was sent and
\* the pointer is the one read; with a pointer and no edit possible one
\* message was sent and its id stored over the pointer.
C26_RenderLeavesPointer ==
    [][\A p \in Renders :
          (pc[p] = "r_aexit" /\ pc'[p] = "done") =>
             LET c == fr[p].chat
                 ptr == Pointer(redis', MessageIds', c)
             IN /\ ptr \in 1..Len(telegram'[c])
                /\ telegram'[c][ptr].text = fr[p].new_text
                /\ fr[p].last_msg_id = NoMsg => fr[p].sent = 1 /\ ptr = fr[p].message_id
                /\ (fr[p].last_msg_id # NoMsg /\ fr[p].sent = 0) => ptr = fr[p].last_msg_id
                /\ (fr[p].last_msg_id # NoMsg /\ fr[p].sent = 1) => ptr = fr[p].message_id]_vars

(***************************************************************************)
(* Claims about the pointer operations.                                    *)
(***************************************************************************)
\* lookups called after the reset of their chat had returned
LateGets == {p \in Procs : fr[p].h = "get" /\ fr[p].pre}

\* C27: a get_last_message_id called after reset_last_message_id of the chat
\* has returned, with no store_message_id since, returns absent, also when
\* another lookup of the chat was running while the reset ran.
C27_AbsentAfterReset ==
    \A p \in LateGets : pc[p] = "done" => fr[p].val = NoMsg

(***************************************************************************)
(* Claims about the navigation.                                            *)
(***************************************************************************)
\* handlers of a tap on the back control of an invoice
Backs == {p \in Procs : fr[p].h = "nav" /\ fr[p].action = "back"}

\* C28: the handler of the back control of an invoice, when it returns, has
\* rendered the list of tariffs of the tariff's plan, not the list of
\* countries.
C28_BackShowsTariffs ==
    \A p \in Backs : pc[p] = "done" => fr[p].new_text.kind = "tariffs"

(***************************************************************************)
(* Claims about malformed identifiers.                                     *)
(***************************************************************************)
\* C29: no step of a 'paid_' handler whose identifier is malformed creates a
\* purchase record, stores a purchase draft or enters the wait-for-photo mode.
C29_MalformedChangesNothing ==
    [][\A p \in Procs :
          (fr[p].h = "paid" /\ Malformed(fr[p].callback_data) /\ pc'[p] # pc[p]) =>
             /\ PurchaseHistory' = PurchaseHistory
             /\ state' = state
             /\ redis'[fr[p].chat].purchase_data = redis[fr[p].chat].purchase_data]_vars

(***************************************************************************)
(* Claims about failures inside the handlers.                              *)
(***************************************************************************)
\* C30: no handler of the purchase flow ends by an exception it did not
\* catch, and a handler that ended in its except clause has told the user.
C30_FailuresHandled ==
    \A p \in Procs :
       /\ pc[p] # "raised"
       /\ (pc[p] = "done" /\ fr[p].out = "error") => fr[p].alert = "error"

(***************************************************************************)
(* Claims about the two copies of the pointer.                             *)
(***************************************************************************)
\* no store_message_id or reset_last_message_id of the chat is running
NoWriter(c) == \A q \in Stores(c) \cup Resets(c) : Done(q)

\* C40: while no store or reset of a chat is running, the cached pointer is
\* absent or equal to the stored one.
C40_CopiesAgree ==
    \A c \in Chats :
       NoWriter(c) =>
          \/ get_cached_message_id(redis, c) = NoMsg
          \/ get_cached_message_id(redis, c) = MessageIds[c]

(***************************************************************************)
(* Claims about the purchase draft.                                        *)
(***************************************************************************)
\* C36: a purchase draft held in the cache for a chat names a purchase record
\* of that chat whose status is pending.
C36_DraftOfPendingRecord ==
    \A c \in Chats :
       LET draft == redis[c].purchase_data
       IN draft # NoData =>
             /\ draft.purchase_id \in 1..Len(PurchaseHistory)
             /\ PurchaseHistory[draft.purchase_id].ChatID = c
             /\ PurchaseHistory[draft.purchase_id].Status = "pending"

(***************************************************************************)
(* Claims about the amount of an order and about invalid counts.           *)
(***************************************************************************)
\* the hundredths (minor units) of a Decimal, what is below them left out
MinorUnits(d) == d \div (Scale \div 100)

\* C32: the amount the confirm control of an invoice carries, which the
\* 'paid_' branch stores in the purchase record, is the price
\* base + base * pct / 100 * u + per_gig * v to the hundredth.
C32_AmountIsPrice ==
    \A p \in Returned :
       paid_control(fr[p].new_text).amount * 100
          = MinorUnits(PriceOf(fr[p].tariff_id, fr[p].u, fr[p].v))

\* C33: create_invoice called with a negative number of additional users or a
\* negative additional volume returns no invoice.
C33_NegativeRejected ==
    \A p \in Returned :
       (fr[p].u < 0 \/ fr[p].v < 0) => fr[p].new_text.kind # "invoice"

(***************************************************************************)
(* Claims about the review of a receipt.                                   *)
(***************************************************************************)
Rejects == {p \in Procs : fr[p].h = "reject"}

InBlock(c) == {p \in Procs : fr[p].inlock /\ fr[p].chat = c}

\* C39: the table maps a chat to one lock that is never replaced: at most
\* one render call of a chat is inside the locked block and it is the holder
\* of the chat's lock, a call waits only behind a call of its own chat, and
\* a lock once made stays, its holder changing only when the holder leaves
\* the block
C39_OneLockPerChat ==
    /\ [](\A c \in LockChats :
             /\ Cardinality(InBlock(c)) <= 1
             /\ \A p \in InBlock(c) : chat_id_locks[c].holder = p
             /\ \A p \in Procs :
                   (pc[p] = "wait_lock" /\ fr[p].chat = c) => InBlock(c) \ {p} # {})
    /\ [][\A c \in LockChats :
             chat_id_locks[c].exists =>
                /\ chat_id_locks'[c].exists
                /\ \A p \in InBlock(c) :
                      chat_id_locks'[c].holder # p => ~fr'[p].inlock]_vars

\* one call waits for the lock of its chat while another holds it
C39_Witness ==
    \E p, q \in Procs :
       /\ p # q /\ fr[p].chat = fr[q].chat
       /\ fr[p].inlock /\ pc[q] = "wait_lock"

\* calls of two chats are inside their blocks at the same time
C39_TwoChats ==
    \E p, q \in Procs : fr[p].inlock /\ fr[q].inlock /\ fr[p].chat # fr[q].chat

\* the approval ended without an account: no server, no handler, a failed
\* gateway call, or a transport call that failed before the gateway call
Failed(p) == \A i \in 1..Len(panel) : panel[i].by # p

Leavers == {p \in Procs : fr[p].left}

\* C37: when a handler that took a chat out of the wait-for-photo mode has
\* ended, the record created on entering the mode is cancel or its receipt
\* went to every configured administrator: no exit leaves it pending
\* without a review message
C37_ExitSettlesRecord ==
    \A p \in Leavers :
       Done(p) =>
          \/ PurchaseHistory[1].Status = "cancel"
          \/ \E q \in Photos : fr[q].admins = NumAdmins

====
